---- MODULE Spec2Model ----
(***************************************************************************)
(* A model of the page-discovery and scoped-extraction protocol of the     *)
(* financial-report parser:                                                *)
(*   - the page subsetter of src/agents.py                                 *)
(*     (extract_pages_range_to_base64_with_mapping),                       *)
(*   - the batch pipeline of src/agents.py                                 *)
(*     (process_financial_models, validate_extracted_data),                *)
(*   - the tool session of src/langchain_agents.py                         *)
(*     (PDFProcessingState and the tools that act on it).                  *)
(* The external generative model and the PDF library are oracles: every    *)
(* answer they can give (a parsed reply, an unusable reply, an exception)  *)
(* is a nondeterministic choice.                                           *)
(***************************************************************************)
EXTENDS Integers, Sequences, FiniteSets, TLC

(***************************************************************************)
(* Bounds of the model.                                                    *)
(***************************************************************************)
\* the largest page count of a PDF that is modelled
MaxPages == 3
\* the longest page_numbers list handed to the subsetter
MaxListLen == 3

\* the longest page_numbers list the agent hands to pdf_page_extraction
MaxToolListLen == 1
\* PDFProcessingState.errors is not followed beyond this length
MaxErrors == 2
\* PDFProcessingState.discovered_references is not followed beyond this length
MaxRefs == 5
\* expansion rounds of one financial model are not followed beyond this number
MaxRounds == 4
\* the batch pipeline is run with the first MaxModels entries of models_config
MaxModels == 2
\* the number of documents in pdf_mapping of src/src/main.py
MaxDocs == 3
\* the most pages one call of convert_pdf_to_markdown is asked for
MaxConvertPages == 3
\* max_workers of the thread pools of src/src/gemini.py
MaxWorkers == 2

VARIABLES
    total_pages,    \* len(reader.pages) of the PDF at pdf_path
    sub_args,       \* subsetter: the page_numbers argument of the last call
    sub_result,     \* subsetter: what the last call returned or raised
    \* PDFProcessingState (src/langchain_agents.py, lines 44-66)
    current_step,
    pages_extracted,
    toc_analysis_result,
    discovered_references,
    all_pages_base64,
    page_mapping,
    extraction_results,
    incomplete_extractions,
    errors,
    \* the tool session around it
    agent_result,   \* analyze_financial_report: "running" until invoke ends
    last_reply,     \* the JSON reply of the tool called last
    \* history of the session, read by the properties only
    protocol_stage, \* how far the session has followed the expansion protocol
    first_pages,    \* protocol: the pages extracted first, for the ToC
    asked_pages,    \* protocol: the pages asked for by number since
    loop_model,     \* the financial model extracted last
    loop_state,     \* "none", "incomplete" (references reported), "expanded"
    loop_rounds,    \* expansion rounds of loop_model so far
    \* the batch pipeline (src/agents.py)
    gemini_api_key,      \* whether GEMINI_API_KEY is set
    financial_analysis,  \* process_financial_models: its argument
    results,             \* process_financial_models: the result map
    pm_call,             \* process_financial_models: position and history
    model_results,       \* validate_extracted_data: its argument
    validation_results,  \* validate_extracted_data: the per-model results
    overall_result,      \* validate_extracted_data: what it returns
    vd_call,             \* validate_extracted_data: position and history
    \* the tool call made last, with its arguments and what the external
    \* model answered; kept only by the specifications that observe calls
    last_call,
    \* the scripts of src/src
    main_run,            \* main.py: the tasks, results and failed of main()
    md_run,              \* gemini.py: one call of convert_pdf_to_markdown
    scan_call,           \* gemini.py: the last call of check_scanned_pages
    pdf_run,             \* gemini.py: one call of process_single_pdf_with_gemini
    lv_call,             \* models/base.py: one validation of a model answer
    cmp_call,            \* eval_results.py: one call of compare_dict
    check_call           \* check.py: one call of extract_pages_from_model

state_vars == <<current_step, pages_extracted, toc_analysis_result,
                discovered_references, all_pages_base64, page_mapping,
                extraction_results, incomplete_extractions, errors>>
session_vars == <<agent_result, last_reply>>
history_vars == <<protocol_stage, first_pages, asked_pages,
                  loop_model, loop_state, loop_rounds>>
subset_vars == <<sub_args, sub_result>>
models_vars == <<financial_analysis, results, pm_call>>
validate_vars == <<model_results, validation_results, overall_result, vd_call>>
script_vars == <<main_run, md_run, scan_call, pdf_run, lv_call, cmp_call,
                 check_call>>
\* the variables of the scripts other than the one named
main_others == <<md_run, scan_call, pdf_run, lv_call, cmp_call, check_call>>
md_others == <<main_run, scan_call, pdf_run, lv_call, cmp_call, check_call>>
scan_others == <<main_run, md_run, pdf_run, lv_call, cmp_call, check_call>>
pdf_others == <<main_run, md_run, scan_call, lv_call, cmp_call, check_call>>
lv_others == <<main_run, md_run, scan_call, pdf_run, cmp_call, check_call>>
cmp_others == <<main_run, md_run, scan_call, pdf_run, lv_call, check_call>>
check_others == <<main_run, md_run, scan_call, pdf_run, lv_call, cmp_call>>
batch_vars == <<gemini_api_key, models_vars, validate_vars, script_vars>>

call_vars == <<last_call>>
\* everything but the variables of the scripts of src/src
agent_vars == <<subset_vars, gemini_api_key, models_vars, validate_vars,
                state_vars, session_vars, history_vars, call_vars>>

vars == <<total_pages, subset_vars, batch_vars, state_vars, session_vars,
          history_vars, call_vars>>

\* page numbers a caller may pass: in range, 0 and total_pages + 1 included
PageInputs == 0..(MaxPages + 1)

(***************************************************************************)
(* Python helpers.                                                         *)
(***************************************************************************)
\* set(L) of a list
set(L) == {L[i] : i \in DOMAIN L}

\* sorted(S) of a set of integers: the ascending list of its elements
RECURSIVE sorted(_)
sorted(S) ==
    IF S = {} THEN <<>>
    ELSE LET m == CHOOSE x \in S : \A y \in S : x <= y
         IN  <<m>> \o sorted(S \ {m})

\* all lists over S of length at most n
ListsUpTo(S, n) == UNION {[1..k -> S] : k \in 0..n}

\* base64.b64encode(pdf_bytes) of a writer holding the given pages, in order
b64encode(writer_pages) == [pdf_pages |-> writer_pages]

(***************************************************************************)
(* src/agents.py: extract_pages_range_to_base64_with_mapping               *)
(***************************************************************************)
\* a variant of the loop that skips a page out of range and keeps going, as
\* extract_pages_range_to_base64 (the function without a mapping) does
RECURSIVE subset_loop_skipping(_, _, _, _, _)
subset_loop_skipping(unique_pages, new_idx, total, writer, mapping) ==
    IF new_idx > Len(unique_pages)
    THEN [raised |-> FALSE, writer |-> writer, page_mapping |-> mapping]
    ELSE LET orig_page == unique_pages[new_idx]
         IN  IF orig_page < 1 \/ orig_page > total
             THEN subset_loop_skipping(unique_pages, new_idx + 1, total,
                                       writer, mapping)
             ELSE subset_loop_skipping(unique_pages, new_idx + 1, total,
                                       Append(writer, orig_page),
                                       (new_idx :> orig_page) @@ mapping)

\* the loop of lines 482-486 from new_idx on: raises at the first page out
\* of range, drops what it had written and mapped so far
RECURSIVE subset_loop(_, _, _, _, _)
subset_loop(unique_pages, new_idx, total, writer, mapping) ==
    IF new_idx > Len(unique_pages)
    THEN [raised |-> FALSE, writer |-> writer, page_mapping |-> mapping]
    ELSE LET orig_page == unique_pages[new_idx]
         IN  IF orig_page < 1 \/ orig_page > total
             THEN [raised |-> TRUE, writer |-> <<>>, page_mapping |-> <<>>]
             ELSE subset_loop(unique_pages, new_idx + 1, total,
                              Append(writer, orig_page),
                              (new_idx :> orig_page) @@ mapping)

\* lines 495-503: one hint line per item of mapping, in insertion order
system_hint_lines(mapping) ==
    LET keys == sorted(DOMAIN mapping)
    IN  [i \in 1..Len(keys) |-> <<keys[i], mapping[keys[i]]>>]

SubsetRaised(err) ==
    [status |-> "raised", error |-> err, pages_base64 |-> b64encode(<<>>),
     page_mapping |-> <<>>, system_hint |-> <<>>]

\* a variant that walks page_numbers as given, without sorted(set(...))
extract_pages_as_given(page_numbers, total) ==
    IF page_numbers = <<>>
    THEN SubsetRaised("page_numbers empty")
    ELSE LET r == subset_loop(page_numbers, 1, total, <<>>, <<>>)
         IN  IF r.raised
             THEN SubsetRaised("page out of range")
             ELSE [status |-> "returned", error |-> "",
                   pages_base64 |-> b64encode(r.writer),
                   page_mapping |-> r.page_mapping,
                   system_hint |-> system_hint_lines(r.page_mapping)]

extract_pages_range_to_base64_with_mapping(page_numbers, total) ==
    LET unique_pages == sorted(set(page_numbers))
    IN  IF unique_pages = <<>>
        THEN SubsetRaised("page_numbers empty")
        ELSE LET r == subset_loop(unique_pages, 1, total, <<>>, <<>>)
             IN  IF r.raised
                 THEN SubsetRaised("page out of range")
                 ELSE [status |-> "returned", error |-> "",
                       pages_base64 |-> b64encode(r.writer),
                       page_mapping |-> r.page_mapping,
                       system_hint |-> system_hint_lines(r.page_mapping)]

\* a caller invokes the subsetter on a PDF of total_pages pages
SubsetCall ==
    \E L \in ListsUpTo(PageInputs, MaxListLen) :
        /\ sub_args' = L
        /\ sub_result' = extract_pages_range_to_base64_with_mapping(L, total_pages)
        /\ UNCHANGED <<total_pages, batch_vars, state_vars, session_vars,
                       history_vars, call_vars>>

(***************************************************************************)
(* src/langchain_agents.py: PDFProcessingState and the values the tools    *)
(* exchange                                                                *)
(***************************************************************************)
\* Optional[List[int]] and Optional[int] arguments
NoneList == [is_none |-> TRUE, val |-> <<>>]
SomeList(L) == [is_none |-> FALSE, val |-> L]
NoneInt == [is_none |-> TRUE, val |-> 0]
SomeInt(n) == [is_none |-> FALSE, val |-> n]

\* Optional[str] all_pages_base64
NoBase64 == [is_none |-> TRUE, pdf_pages |-> <<>>]
SomeBase64(writer_pages) == [is_none |-> FALSE, pdf_pages |-> writer_pages]

\* the keys of models_config (lines 756-773), in English
FinancialModels == {"cash_equivalents", "prepayments",
                    "receivables_related_parties", "total_liabilities"}
\* the model names the agent asks for: two of the keys and one that is no key
AgentModelNames == {"cash_equivalents", "prepayments", "unsupported"}

\* a DiscoveredReferenceItem, as the dict stored by lines 859-864
Note6 == [reference_text |-> "note6", reference_type |-> "note",
          context |-> "see note 6", page_numbers |-> NoneList]

\* the values of response.parsed for ExtractionResultWithReferences
ExtractionResults ==
    [extracted_data : {"None", "data"},
     discovered_references : {NoneList, SomeList(<<>>), SomeList(<<Note6>>)},
     is_complete : BOOLEAN]

\* what one call of generate_content for an extraction comes to: it raises,
\* response.parsed is None, or response.parsed is one of the results
ExtractionOutcomes ==
    {[kind |-> k,
      result |-> [extracted_data |-> "None",
                  discovered_references |-> NoneList,
                  is_complete |-> TRUE]] : k \in {"raise", "parsed_none"}}
      \cup {[kind |-> "parsed", result |-> r] : r \in ExtractionResults}

\* current_step
Step(name, pages, what) == [step |-> name, pages |-> pages, what |-> what]

\* the JSON reply of a tool
BaseReply ==
    [tool |-> "", success |-> FALSE, error |-> "", extracted_pages |-> <<>>,
     newly_added_pages |-> <<>>, is_complete |-> FALSE, has_references |-> 0]
Failure(tool, err) == [BaseReply EXCEPT !.tool = tool, !.error = err]

Min(a, b) == IF a < b THEN a ELSE b

\* no call observed: the arguments and the answer are at their defaults
NoCall ==
    [tool |-> "", page_numbers |-> NoneList, first_n_pages |-> NoneInt,
     model_name |-> "", kind |-> "", references_before |-> 0,
     pages_before |-> <<>>, base64_before |-> NoBase64,
     discovered_before |-> <<>>, incomplete_before |-> <<>>,
     toc_succeeded |-> FALSE,
     result |-> [extracted_data |-> "None",
                 discovered_references |-> NoneList,
                 is_complete |-> TRUE]]

\* PDFProcessingState(pdf_path=pdf_path): lines 44-63 and 1106
NewState ==
    /\ current_step = Step("init", <<>>, "")
    /\ pages_extracted = <<>>
    /\ toc_analysis_result = [is_none |-> TRUE]
    /\ discovered_references = <<>>
    /\ all_pages_base64 = NoBase64
    /\ page_mapping = <<>>
    /\ extraction_results = <<>>
    /\ incomplete_extractions = <<>>
    /\ errors = <<>>

NewSession ==
    /\ agent_result = "running"
    /\ last_reply = BaseReply
    /\ protocol_stage = "start"
    /\ first_pages = {}
    /\ asked_pages = {}
    /\ loop_model = ""
    /\ loop_state = "none"
    /\ loop_rounds = 0
    /\ last_call = NoCall

(***************************************************************************)
(* PDFPageExtractionTool._run (lines 326-430)                              *)
(***************************************************************************)
\* line 342
default_first_n_pages == 5

\* lines 351-362
pages_to_add_this_run(page_numbers, first_n_pages, current, total) ==
    IF ~page_numbers.is_none /\ page_numbers.val # <<>>
    THEN set(page_numbers.val)
    ELSE IF ~first_n_pages.is_none /\ current = {}
         THEN 1..Min(first_n_pages.val, total)
         ELSE {}

\* a variant that extracts the pages of this run alone
only_pages_to_add(current, to_add) == sorted(to_add)

\* lines 364-368
all_pages_to_extract_list(current, to_add) == sorted(current \cup to_add)

\* a variant without the range check of line 380
actual_extracted_pages_unchecked(all_list, total) == all_list

\* a variant whose range check is off by one at the lower end
actual_extracted_pages_exclusive(all_list, total) ==
    SelectSeq(all_list, LAMBDA p : 1 < p /\ p <= total)

\* lines 379-383: the pages of the list that the document has
actual_extracted_pages(all_list, total) ==
    SelectSeq(all_list, LAMBDA p : 1 <= p /\ p <= total)

\* lines 384-390: one entry of state.errors for every other page; the page
\* number in the message is left out
out_of_range_errors(all_list, total) ==
    [i \in 1..Len(SelectSeq(all_list, LAMBDA p : ~(1 <= p /\ p <= total)))
       |-> "page out of range"]

\* a variant that reports every page of this run as newly added
all_pages_of_run(current, to_add) == sorted(to_add)

\* lines 409-415
newly_added_pages(current, to_add) == sorted(to_add \ current)

\* the expansion protocol: the first pages for the ToC analysis, then the
\* statement pages by number, then the reference pages by number; anything
\* else that extracts pages leaves the protocol
stage_after(by_numbers, to_add, total) ==
    LET in_range == \A p \in to_add : 1 <= p /\ p <= total
    IN  IF protocol_stage = "start" /\ ~by_numbers /\ to_add # {}
        THEN "first"
        ELSE IF protocol_stage = "first" /\ by_numbers /\ in_range
        THEN "statements"
        ELSE IF protocol_stage = "statements" /\ by_numbers /\ in_range
        THEN "expanded"
        ELSE "off"

\* one call of the tool with the given arguments; fault is where the PDF
\* library fails, if it does
PageCall(page_numbers, first_n_arg, fault) ==
    LET first_n_pages ==
            IF page_numbers.is_none /\ first_n_arg.is_none
            THEN SomeInt(default_first_n_pages) ELSE first_n_arg
        current == set(pages_extracted)
        to_add == pages_to_add_this_run(page_numbers, first_n_pages,
                                        current, total_pages)
        by_numbers == ~page_numbers.is_none /\ page_numbers.val # <<>>
        all_list == all_pages_to_extract_list(current, to_add)
        actual == actual_extracted_pages(all_list, total_pages)
        errs == out_of_range_errors(all_list, total_pages)
        stage == stage_after(by_numbers, to_add, total_pages)
    IN  /\ agent_result = "running"
        /\ IF fault = "open"
           THEN \* open() or PdfReader raised: lines 423-430
                /\ last_reply' = Failure("pdf_page_extraction", "exception")
                /\ UNCHANGED <<state_vars, history_vars>>
           ELSE IF all_list = <<>>
           THEN \* lines 370-376
                /\ last_reply' = Failure("pdf_page_extraction", "no pages")
                /\ UNCHANGED <<state_vars, history_vars>>
           ELSE /\ Len(errors) + Len(errs) <= MaxErrors
                /\ errors' = errors \o errs
                /\ IF fault = "write"
                   THEN \* raised after the loop, before line 398
                        /\ last_reply' =
                             Failure("pdf_page_extraction", "exception")
                        /\ UNCHANGED <<current_step, pages_extracted,
                                       all_pages_base64, history_vars>>
                   ELSE /\ all_pages_base64' = SomeBase64(actual)
                        /\ pages_extracted' = actual
                        /\ current_step' = Step("extracted", actual, "")
                        /\ last_reply' =
                             [BaseReply EXCEPT
                                !.tool = "pdf_page_extraction",
                                !.success = TRUE,
                                !.extracted_pages = actual,
                                !.newly_added_pages =
                                    newly_added_pages(current, to_add)]
                        /\ protocol_stage' = stage
                        /\ first_pages' =
                             IF stage = "first" THEN to_add
                             ELSE IF stage = "off" THEN {} ELSE first_pages
                        /\ asked_pages' =
                             IF stage \in {"statements", "expanded"}
                             THEN asked_pages \cup to_add ELSE {}
                        /\ loop_state' =
                             IF by_numbers /\ loop_state = "incomplete"
                             THEN "expanded" ELSE loop_state
                        /\ UNCHANGED <<loop_model, loop_rounds>>
                /\ UNCHANGED <<toc_analysis_result, discovered_references,
                               page_mapping, extraction_results,
                               incomplete_extractions>>
        /\ UNCHANGED <<total_pages, subset_vars, batch_vars, agent_result>>

\* the arguments the agent passes: page_numbers (first_n_pages is then not
\* read), or first_n_pages with page_numbers left out or empty
PageArgs(Lists) ==
    {<<SomeList(L), NoneInt>> : L \in Lists \ {<<>>}}
      \cup {<<l, f>> : l \in {NoneList, SomeList(<<>>)},
                       f \in {NoneInt} \cup {SomeInt(n) : n \in 0..2}}

\* the page lists and the arguments of the agent in the page-set session
ToolLists == ListsUpTo(PageInputs, MaxToolListLen)
ToolPageArgs == PageArgs(ToolLists)

PDFPageExtractionTool_run(Args, Faults) ==
    \E args \in Args, fault \in Faults :
        /\ PageCall(args[1], args[2], fault)
        /\ UNCHANGED call_vars

(***************************************************************************)
(* TOCAnalysisTool._run (lines 452-550)                                    *)
(***************************************************************************)
TocOutcomes == {"parsed", "raise"}

\* one call; outcome is what the two calls of generate_content come to
TocCall(outcome) ==
    /\ agent_result = "running"
    /\ IF all_pages_base64.is_none
       THEN \* lines 460-467
            /\ last_reply' = Failure("toc_analysis", "no base64")
            /\ UNCHANGED current_step
       ELSE /\ current_step' = Step("toc_analysis", <<>>, "")
            /\ last_reply' =
                 IF outcome = "raise"
                 THEN Failure("toc_analysis", "exception")
                 ELSE [BaseReply EXCEPT !.tool = "toc_analysis",
                                        !.success = TRUE]
    /\ UNCHANGED <<pages_extracted, toc_analysis_result, discovered_references,
                   all_pages_base64, page_mapping, extraction_results,
                   incomplete_extractions, errors>>
    /\ UNCHANGED <<total_pages, subset_vars, batch_vars, agent_result,
                   history_vars>>

TOCAnalysisTool_run ==
    \E outcome \in TocOutcomes :
        /\ TocCall(outcome)
        /\ UNCHANGED call_vars

(***************************************************************************)
(* ReferenceLocationTool._run (lines 662-731)                              *)
(***************************************************************************)
\* a variant without the except branch of lines 723-731: the reply of the
\* try block whatever the call did
lookup_reply_unguarded(outcome) ==
    [BaseReply EXCEPT !.tool = "reference_location_lookup",
                      !.success = TRUE]

\* lines 706-731: the reply once the external model was called; the call
\* raises, or response.parsed is None and line 718 raises, or the reply is
\* built from the parsed result
lookup_reply(outcome) ==
    IF outcome \in {"raise", "parsed_none"}
    THEN Failure("reference_location_lookup", "exception")
    ELSE [BaseReply EXCEPT !.tool = "reference_location_lookup",
                           !.success = TRUE]

LookupOutcomes == {"parsed", "parsed_none", "raise"}

LookupCall(outcome) ==
    /\ agent_result = "running"
    /\ IF toc_analysis_result.is_none
       THEN \* lines 671-677
            /\ last_reply' =
                 Failure("reference_location_lookup", "no toc analysis")
            /\ UNCHANGED current_step
       ELSE /\ current_step' = Step("lookup", <<>>, "note6")
            /\ last_reply' = lookup_reply(outcome)
    /\ UNCHANGED <<pages_extracted, toc_analysis_result, discovered_references,
                   all_pages_base64, page_mapping, extraction_results,
                   incomplete_extractions, errors>>
    /\ UNCHANGED <<total_pages, subset_vars, batch_vars, agent_result,
                   history_vars>>

ReferenceLocationTool_run ==
    \E outcome \in LookupOutcomes :
        /\ LookupCall(outcome)
        /\ UNCHANGED call_vars

(***************************************************************************)
(* EnhancedFinancialDataExtractionTool._run (lines 775-904)                *)
(***************************************************************************)
\* line 856
stores_references(result) ==
    /\ ~result.discovered_references.is_none
    /\ result.discovered_references.val # <<>>
    /\ ~result.is_complete

\* lines 869-875: the entry of incomplete_extractions
incomplete_entry(result) ==
    [extracted_data |-> result.extracted_data,
     missing_info |-> "missing",
     references |-> result.discovered_references.val]

\* line 873 iterates over discovered_references, which may be None
entry_raises(result) ==
    ~result.is_complete /\ result.discovered_references.is_none

\* lines 877-895: json.dumps meets the pydantic object in extraction_result
reply_raises(result) == result.extracted_data # "None"

\* lines 882-886
has_references(result) ==
    IF ~result.is_complete THEN Len(result.discovered_references.val) ELSE 0

\* the history of the expansion loop, after an extraction of model_name that
\* the model answered with result
rounds_after(model_name) ==
    IF loop_model = model_name /\ loop_state = "expanded" THEN loop_rounds + 1
    ELSE IF loop_model = model_name /\ loop_state = "incomplete"
         THEN loop_rounds
         ELSE 0

ExtractCall(model_name, oracle) ==
    /\ agent_result = "running"
    /\
      LET outcome == oracle.kind
          result == oracle.result
      IN
        /\ IF model_name \notin FinancialModels
           THEN \* lines 784-791
                /\ last_reply' = Failure("enhanced_financial_data_extraction",
                                         "unsupported model")
                /\ UNCHANGED <<current_step, discovered_references,
                               incomplete_extractions, history_vars>>
           ELSE /\ current_step' = Step("extracting", <<>>, model_name)
                /\ IF outcome # "parsed"
                   THEN \* generate_content raised, or parsed is None and
                        \* line 852 raised
                        /\ last_reply' =
                             Failure("enhanced_financial_data_extraction",
                                     "exception")
                        /\ UNCHANGED <<discovered_references,
                                       incomplete_extractions, history_vars>>
                   ELSE /\ rounds_after(model_name) <= MaxRounds
                        /\ loop_model' = model_name
                        /\ loop_rounds' = rounds_after(model_name)
                        /\ loop_state' = IF stores_references(result)
                                         THEN "incomplete" ELSE "none"
                        /\ UNCHANGED <<protocol_stage, first_pages, asked_pages>>
                        /\ IF stores_references(result)
                           THEN /\ Len(discovered_references)
                                     + Len(result.discovered_references.val)
                                       <= MaxRefs
                                /\ discovered_references' =
                                     discovered_references
                                       \o result.discovered_references.val
                           ELSE UNCHANGED discovered_references
                        /\ IF entry_raises(result)
                           THEN /\ UNCHANGED incomplete_extractions
                                /\ last_reply' =
                                     Failure(
                                       "enhanced_financial_data_extraction",
                                       "exception")
                           ELSE /\ incomplete_extractions' =
                                     IF ~result.is_complete
                                     THEN (model_name :>
                                             incomplete_entry(result))
                                          @@ incomplete_extractions
                                     ELSE incomplete_extractions
                                /\ last_reply' =
                                     IF reply_raises(result)
                                     THEN Failure(
                                       "enhanced_financial_data_extraction",
                                       "exception")
                                     ELSE [BaseReply EXCEPT
                                       !.tool =
                                         "enhanced_financial_data_extraction",
                                       !.success = TRUE,
                                       !.is_complete = result.is_complete,
                                       !.has_references =
                                           has_references(result)]
    /\ UNCHANGED <<pages_extracted, toc_analysis_result, all_pages_base64,
                   page_mapping, extraction_results, errors>>
    /\ UNCHANGED <<total_pages, subset_vars, batch_vars, agent_result>>

EnhancedFinancialDataExtractionTool_run ==
    \E model_name \in AgentModelNames, oracle \in ExtractionOutcomes :
        /\ ExtractCall(model_name, oracle)
        /\ UNCHANGED call_vars

(***************************************************************************)
(* DataValidationTool._run (lines 925-982)                                 *)
(***************************************************************************)
DataValidationTool_run ==
    /\ agent_result = "running"
    /\ \E model_name \in AgentModelNames, outcome \in {"parsed", "raise"} :
        /\ current_step' = Step("validating", <<>>, model_name)
        /\ last_reply' =
             IF outcome = "raise"
             THEN Failure("data_validation", "exception")
             ELSE [BaseReply EXCEPT !.tool = "data_validation",
                                    !.success = TRUE]
    /\ UNCHANGED <<pages_extracted, toc_analysis_result, discovered_references,
                   all_pages_base64, page_mapping, extraction_results,
                   incomplete_extractions, errors>>
    /\ UNCHANGED <<total_pages, subset_vars, batch_vars, agent_result,
                   history_vars, call_vars>>

(***************************************************************************)
(* FinancialReportAnalysisAgent.analyze_financial_report (lines 1096-1143):*)
(* the executor calls the tools the language model picks, in the order it  *)
(* picks them, until the language model gives its final answer or a call   *)
(* of the language model raises                                            *)
(***************************************************************************)
AgentReturns ==
    /\ agent_result = "running"
    /\ agent_result' \in {"success", "error"}
    /\ UNCHANGED <<total_pages, subset_vars, batch_vars, state_vars, last_reply,
                   history_vars, call_vars>>

(***************************************************************************)
(* src/agents.py: the batch pipeline (process_financial_models and         *)
(* validate_extracted_data)                                                *)
(***************************************************************************)
\* the fields of FinancialStatementsAnalysis, in the order of lines 701-707
statement_names ==
    <<"individual_balance_sheet", "individual_comprehensive_income",
      "individual_equity_changes", "individual_cash_flow",
      "important_accounting_items">>

\* the four entries of models_config (names in English)
all_models_config ==
    <<[name |-> "cash_equivalents",
       required_statements |-> <<"individual_balance_sheet",
                                 "important_accounting_items">>],
      [name |-> "prepayments",
       required_statements |-> <<"individual_balance_sheet",
                                 "important_accounting_items">>],
      [name |-> "receivables_related_parties",
       required_statements |-> <<"individual_balance_sheet",
                                 "important_accounting_items">>],
      [name |-> "total_liabilities",
       required_statements |-> <<"individual_balance_sheet",
                                 "important_accounting_items">>]>>

models_config ==
    SubSeq(all_models_config, 1, Min(MaxModels, Len(all_models_config)))

\* a FinancialStatementLocation as the analysis reports it: found or not,
\* with no page, a page of the PDF or a page beyond its end
StatementLocations ==
    {[found |-> f, page_numbers |-> L] :
        f \in BOOLEAN, L \in {<<>>, <<1>>, <<MaxPages + 1>>}}

\* the statements that no financial model requires are either not found or
\* found on page 2
OtherLocations ==
    {[found |-> FALSE, page_numbers |-> <<>>],
     [found |-> TRUE, page_numbers |-> <<2>>]}

\* the FinancialStatementsAnalysis values handed to the pipeline
AnalysisInputs ==
    {fa \in [set(statement_names) -> StatementLocations \cup OtherLocations] :
        /\ fa["individual_balance_sheet"] \in StatementLocations
        /\ fa["important_accounting_items"] \in StatementLocations
        /\ fa["individual_comprehensive_income"] \in OtherLocations
        /\ fa["individual_equity_changes"] \in OtherLocations
        /\ fa["individual_cash_flow"] \in OtherLocations}

NoAnalysis == [s \in set(statement_names) |->
                  [found |-> FALSE, page_numbers |-> <<>>]]

\* lines 562-566 and 700-710: the pages of the statements that are found
\* and have pages
RECURSIVE all_relevant_pages(_, _)
all_relevant_pages(fa, names) ==
    IF names = <<>>
    THEN {}
    ELSE LET statement == fa[Head(names)]
         IN  (IF statement.found /\ statement.page_numbers # <<>>
              THEN set(statement.page_numbers)
              ELSE {})
             \cup all_relevant_pages(fa, Tail(names))

\* lines 558-560: the statements some model requires
RECURSIVE all_required_statements(_)
all_required_statements(config) ==
    IF config = <<>>
    THEN <<>>
    ELSE LET rest == all_required_statements(Tail(config))
             mine == Head(config).required_statements
         IN  SelectSeq(mine, LAMBDA s : s \notin set(rest)) \o rest

\* a variant that also counts a statement found without pages as missing
missing_or_empty_statements(fa, required) ==
    SelectSeq(required,
              LAMBDA s : ~fa[s].found \/ fa[s].page_numbers = <<>>)

\* lines 599-603: the required statements with found = false
missing_statements(fa, required) ==
    SelectSeq(required, LAMBDA s : ~fa[s].found)

\* a dict kept as the sequence of its items, in insertion order
keys(d) == [i \in DOMAIN d |-> d[i].name]

dict_set(d, name, value) ==
    IF \E i \in DOMAIN d : d[i].name = name
    THEN [i \in DOMAIN d |->
             IF d[i].name = name THEN [name |-> name, value |-> value]
             ELSE d[i]]
    ELSE Append(d, [name |-> name, value |-> value])

PmIdle == [status |-> "idle", error |-> "", next |-> 0,
           relevant_pages |-> <<>>, warned |-> {}, requested |-> {}]

\* what setup_gemini and generate_content can do for one model
ModelOutcomes == {"client raises", "call raises", "parsed none", "parsed"}

\* process_financial_models up to its loop (lines 557-590); fault "open"
\* is a PDF that cannot be opened or read
process_financial_models_start ==
    /\ pm_call.status = "idle"
    /\ \E fa \in AnalysisInputs, fault \in {"none", "open"} :
        LET pages == all_relevant_pages(fa, all_required_statements(models_config))
            relevant_pages == sorted(pages)
            subset == extract_pages_range_to_base64_with_mapping(
                          relevant_pages, total_pages)
        IN  /\ financial_analysis' = fa
            /\ results' = <<>>
            /\ pm_call' =
                 IF pages = {}
                 THEN [PmIdle EXCEPT !.status = "returned none"]
                 ELSE IF fault = "open" \/ subset.status = "raised"
                 THEN [PmIdle EXCEPT !.status = "raised",
                                     !.error = IF fault = "open"
                                               THEN "cannot open"
                                               ELSE subset.error,
                                     !.relevant_pages = relevant_pages]
                 ELSE [PmIdle EXCEPT !.status = "loop", !.next = 1,
                                     !.relevant_pages = relevant_pages]
    /\ UNCHANGED <<total_pages, subset_vars, script_vars, gemini_api_key, validate_vars,
                   state_vars, session_vars, history_vars, call_vars>>

\* one round of the loop of lines 592-647, and lines 649-657 after the last
process_financial_models_model ==
    /\ pm_call.status = "loop"
    /\ LET model_config == models_config[pm_call.next]
           missing == missing_statements(financial_analysis,
                                         model_config.required_statements)
           warned == IF missing # <<>>
                     THEN pm_call.warned \cup {model_config.name}
                     ELSE pm_call.warned
           status == IF pm_call.next = Len(models_config)
                     THEN "returned" ELSE "loop"
       IN  IF ~gemini_api_key
           THEN /\ pm_call' = [pm_call EXCEPT !.status = status,
                                              !.next = @ + 1,
                                              !.warned = warned]
                /\ UNCHANGED results
           ELSE \E outcome \in ModelOutcomes :
                  /\ pm_call' =
                       [pm_call EXCEPT
                          !.status = status, !.next = @ + 1,
                          !.warned = warned,
                          !.requested =
                             IF outcome = "client raises" THEN @
                             ELSE @ \cup {model_config.name}]
                  /\ results' =
                       dict_set(results, model_config.name,
                                IF outcome = "parsed" THEN "parsed"
                                ELSE "None")
    /\ UNCHANGED <<total_pages, subset_vars, script_vars, gemini_api_key,
                   financial_analysis, validate_vars, state_vars,
                   session_vars, history_vars, call_vars>>

\* extract_pages_range_to_base64 (lines 399-450): pages out of range are
\* skipped; None without a valid page or when the PDF cannot be read
RECURSIVE valid_pages(_, _)
valid_pages(page_numbers, total) ==
    IF page_numbers = <<>>
    THEN <<>>
    ELSE LET page_num == Head(page_numbers)
             rest == valid_pages(Tail(page_numbers), total)
         IN  IF page_num < 1 \/ page_num > total
             THEN rest
             ELSE <<page_num>> \o rest

extract_pages_range_to_base64(page_numbers, total, fault) ==
    IF fault # "none" \/ valid_pages(page_numbers, total) = <<>>
    THEN NoBase64
    ELSE SomeBase64(valid_pages(page_numbers, total))

\* the ValidationResult values the model can reply with; confidence_score
\* in hundredths
ValidationReplies ==
    [is_valid : BOOLEAN, errors : {<<>>, <<"e1", "e2">>},
     warnings : {<<>>, <<"w1">>}, confidence_score : {50, 100}]

\* what validating one model can do: the call raises, the reply cannot be
\* parsed (response.parsed is None), or a ValidationResult is parsed
ValidationOutcomes ==
    {[kind |-> k, reply |-> CHOOSE r \in ValidationReplies : TRUE] :
        k \in {"call raises", "parsed none"}}
      \cup {[kind |-> "parsed", reply |-> r] : r \in ValidationReplies}

\* lines 816 and 818 without line 817: the result keeps the name of the reply
with_reply_name(reply, model_name) ==
    [model_name |-> "name of the reply", is_valid |-> reply.is_valid,
     errors |-> reply.errors, warnings |-> reply.warnings,
     confidence_score |-> reply.confidence_score]

\* lines 816-818: the parsed reply, with model_name set to the key
with_model_name(reply, model_name) ==
    [model_name |-> model_name, is_valid |-> reply.is_valid,
     errors |-> reply.errors, warnings |-> reply.warnings,
     confidence_score |-> reply.confidence_score]

\* a variant of the synthetic result that carries no error entry
synthetic_result_without_error(model_name, kind) ==
    [model_name |-> model_name, is_valid |-> FALSE, errors |-> <<>>,
     warnings |-> <<>>, confidence_score |-> 0]

\* lines 841-850: the result appended when validating a model raised
synthetic_result(model_name, kind) ==
    [model_name |-> model_name, is_valid |-> FALSE, errors |-> <<kind>>,
     warnings |-> <<>>, confidence_score |-> 0]

RECURSIVE sum(_)
sum(numbers) ==
    IF numbers = <<>> THEN 0 ELSE Head(numbers) + sum(Tail(numbers))

RECURSIVE gcd(_, _)
gcd(a, b) == IF b = 0 THEN a ELSE gcd(b, a % b)

\* the quotient a / b of true division, as a fraction in lowest terms
truediv(a, b) == [num |-> a \div gcd(a, b), den |-> b \div gcd(a, b)]

\* a variant that counts the results that have errors
results_with_errors(vrs) ==
    sum([i \in DOMAIN vrs |-> IF vrs[i].errors # <<>> THEN 1 ELSE 0])

\* line 854
total_errors(vrs) == sum([i \in DOMAIN vrs |-> Len(vrs[i].errors)])

\* line 855
total_warnings(vrs) == sum([i \in DOMAIN vrs |-> Len(vrs[i].warnings)])

\* lines 856-858
average_confidence(vrs) ==
    truediv(sum([i \in DOMAIN vrs |-> vrs[i].confidence_score]), Len(vrs))

\* a variant that passes when some result is valid
any_valid(vrs) == \E i \in DOMAIN vrs : vrs[i].is_valid

\* line 859
overall_valid(vrs) == \A i \in DOMAIN vrs : vrs[i].is_valid

NoOverallResult ==
    [is_none |-> TRUE, validation_results |-> <<>>, overall_valid |-> FALSE,
     total_errors |-> 0, total_warnings |-> 0,
     average_confidence |-> truediv(0, 1)]

\* lines 853-877
OverallValidationResult(vrs) ==
    IF vrs # <<>>
    THEN [is_none |-> FALSE, validation_results |-> vrs,
          overall_valid |-> overall_valid(vrs),
          total_errors |-> total_errors(vrs),
          total_warnings |-> total_warnings(vrs),
          average_confidence |-> average_confidence(vrs)]
    ELSE NoOverallResult

VdIdle == [status |-> "idle", next |-> 0, pages_base64 |-> NoBase64,
           raised |-> {}]

\* the result maps process_financial_models hands over: an entry for every
\* model, None where the extraction failed
ModelResultInputs ==
    {[i \in DOMAIN models_config |->
         [name |-> models_config[i].name, value |-> v[i]]] :
        v \in [DOMAIN models_config -> {"None", "parsed"}]}

\* validate_extracted_data up to its loop (lines 697-725)
validate_extracted_data_start ==
    /\ vd_call.status = "idle"
    /\ \E fa \in AnalysisInputs, fault \in {"none", "open"} :
        LET pages == all_relevant_pages(fa, statement_names)
            pages_base64 ==
                extract_pages_range_to_base64(sorted(pages), total_pages, fault)
        IN  vd_call' =
              IF pages = {} \/ pages_base64.is_none
              THEN [VdIdle EXCEPT !.status = "returned"]
              ELSE [VdIdle EXCEPT !.status = "loop", !.next = 1,
                                  !.pages_base64 = pages_base64]
    /\ UNCHANGED <<total_pages, subset_vars, script_vars, gemini_api_key, models_vars,
                   model_results, validation_results, overall_result,
                   state_vars, session_vars, history_vars, call_vars>>

\* one round of the loop of lines 727-850, and lines 852-877 after the last
validate_extracted_data_model ==
    /\ vd_call.status = "loop"
    /\ LET model_name == model_results[vd_call.next].name
           result == model_results[vd_call.next].value
           last == vd_call.next = Len(model_results)
           status == IF last THEN "returned" ELSE "loop"
       IN  \E outcome \in ValidationOutcomes :
             LET skipped == result = "None" \/ ~gemini_api_key
                 vrs == IF skipped
                        THEN validation_results
                        ELSE IF outcome.kind = "parsed"
                        THEN Append(validation_results,
                                    with_model_name(outcome.reply, model_name))
                        ELSE Append(validation_results,
                                    synthetic_result(model_name, outcome.kind))
             IN  /\ validation_results' = vrs
                 /\ vd_call' =
                      [vd_call EXCEPT
                         !.status = status, !.next = @ + 1,
                         !.raised = IF ~skipped /\ outcome.kind # "parsed"
                                    THEN @ \cup {model_name} ELSE @]
                 /\ overall_result' =
                      IF last THEN OverallValidationResult(vrs)
                      ELSE overall_result
    /\ UNCHANGED <<total_pages, subset_vars, script_vars, gemini_api_key, models_vars,
                   model_results, state_vars, session_vars, history_vars,
                   call_vars>>

NoBatch ==
    /\ gemini_api_key = TRUE
    /\ financial_analysis = NoAnalysis
    /\ results = <<>>
    /\ pm_call = PmIdle
    /\ model_results = <<>>
    /\ validation_results = <<>>
    /\ overall_result = NoOverallResult
    /\ vd_call = VdIdle

(***************************************************************************)
(* src/src/main.py: process_wrapper and main                               *)
(***************************************************************************)
\* the keys of pdf_mapping, numbered
Documents == 1..MaxDocs

\* what process_wrapper returns as (filename, results, err): the results of
\* the four models and None, or None and str(e) of the exception it caught,
\* which is empty for an exception without a message
NoneStr == [is_none |-> TRUE, val |-> ""]
SomeStr(str) == [is_none |-> FALSE, val |-> str]

WrapperReturns ==
    {[caught |-> FALSE, result |-> "results", err |-> NoneStr],
     [caught |-> TRUE, result |-> "None", err |-> SomeStr("message")],
     [caught |-> TRUE, result |-> "None", err |-> SomeStr("")]}

\* line 117, "if err": None and the empty string are false
truthy(err) == ~err.is_none /\ err.val # ""

MainIdle ==
    [status |-> "loop",
     tasks |-> [fn \in Documents |-> [state |-> "pending", caught |-> FALSE]],
     completed |-> <<>>, results |-> <<>>, failed |-> <<>>,
     written |-> {}]

\* one task of line 114 runs process_wrapper (lines 89-107) to its end
process_wrapper ==
    /\ main_run.status = "loop"
    /\ \E fn \in Documents, ret \in WrapperReturns :
        /\ main_run.tasks[fn].state = "pending"
        /\ main_run' =
             [main_run EXCEPT
                !.tasks[fn] = [state |-> "done", caught |-> ret.caught],
                !.completed = Append(@, [fn |-> fn, result |-> ret.result,
                                         err |-> ret.err])]
    /\ UNCHANGED <<total_pages, agent_vars, main_others>>

\* one round of the loop of lines 115-131: as_completed hands over the task
\* that completed first
main_loop ==
    /\ main_run.status = "loop"
    /\ main_run.completed # <<>>
    /\ LET fut == Head(main_run.completed)
       IN  main_run' =
             [main_run EXCEPT
                !.completed = Tail(@),
                !.tasks[fut.fn].state = "collected",
                !.failed = IF truthy(fut.err)
                           THEN (fut.fn :> fut.err.val) @@ @ ELSE @,
                !.results = IF truthy(fut.err)
                            THEN @ ELSE (fut.fn :> fut.result) @@ @]
    /\ UNCHANGED <<total_pages, agent_vars, main_others>>

\* lines 132-143, after the last task: json.dump(results) raises TypeError
\* on the parsed models (pydantic objects) inside a result, after
\* results.json was opened; failed.json is written if failed is not empty
main_save ==
    /\ main_run.status = "loop"
    /\ \A fn \in Documents : main_run.tasks[fn].state = "collected"
    /\ main_run' =
         IF \E fn \in DOMAIN main_run.results :
                main_run.results[fn] = "results"
         THEN [main_run EXCEPT !.status = "raised",
                               !.written = {"results.json"}]
         ELSE [main_run EXCEPT
                 !.status = "returned",
                 !.written = IF main_run.failed # <<>>
                             THEN {"results.json", "failed.json"}
                             ELSE {"results.json"}]
    /\ UNCHANGED <<total_pages, agent_vars, main_others>>

(***************************************************************************)
(* src/src/gemini.py: convert_pdf_to_markdown (lines 247-342; the same     *)
(* function stands in src/gemini.py, lines 212-296)                        *)
(***************************************************************************)
\* the pages argument: up to MaxConvertPages different pages, ascending
ConvertRequests ==
    {sorted(S) : S \in {T \in SUBSET PageInputs :
                            Cardinality(T) <= MaxConvertPages}}

\* line 267 without its range test
valid_page_list_unchecked(pages, total) == pages

\* line 267
valid_page_list(pages, total) ==
    SelectSeq(pages, LAMBDA p : 1 <= p /\ p <= total)

\* lock.locked(); holder is the page whose worker holds it
Unlocked == [locked |-> FALSE, holder |-> 0]
Locked(page) == [locked |-> TRUE, holder |-> page]

MdIdle ==
    [status |-> "idle", pages |-> <<>>, opened |-> FALSE,
     doc_open |-> FALSE, valid_pages |-> <<>>,
     lock |-> Unlocked, pc |-> <<>>, content |-> <<>>,
     markdown_content |-> <<>>]

\* the steps of process_single_page that read the shared doc, under the
\* lock: insert_pdf (line 281) and what follows it up to the release
InLock == {"insert_pdf", "tobytes"}
OnThread == InLock \cup {"with lock", "client.call"}

\* lines 261-273 up to the submission of the tasks; fault "open" is
\* fitz.open raising
convert_pdf_to_markdown_start ==
    /\ md_run.status = "idle"
    /\ \E pages \in ConvertRequests, fault \in {"none", "open"} :
        LET valid == valid_page_list(pages, total_pages)
        IN  md_run' =
              IF fault = "open" \/ valid = <<>>
              THEN [MdIdle EXCEPT !.status = "raised", !.pages = pages,
                                  !.opened = fault # "open"]
              ELSE [MdIdle EXCEPT
                      !.status = "running", !.doc_open = TRUE,
                      !.pages = pages, !.opened = TRUE,
                      !.valid_pages = valid,
                      !.pc = [i \in DOMAIN valid |-> "submitted"],
                      !.content = [i \in DOMAIN valid |-> ""]]
    /\ UNCHANGED <<total_pages, agent_vars, md_others>>

\* a thread of the pool takes a submitted task: at most max_workers run
thread_takes_task ==
    /\ md_run.status = "running"
    /\ \E i \in DOMAIN md_run.pc :
        /\ md_run.pc[i] = "submitted"
        /\ Cardinality({j \in DOMAIN md_run.pc : md_run.pc[j] \in OnThread})
             < MaxWorkers
        /\ md_run' = [md_run EXCEPT !.pc[i] = "with lock"]
    /\ UNCHANGED <<total_pages, agent_vars, md_others>>

\* a variant of the lock that never blocks
acquires_always(lock) == TRUE

\* line 279, "with lock": the worker goes on when the lock is free
acquires(lock) == ~lock.locked

lock_acquire ==
    /\ md_run.status = "running"
    /\ \E i \in DOMAIN md_run.pc :
        /\ md_run.pc[i] = "with lock"
        /\ acquires(md_run.lock)
        /\ md_run' = [md_run EXCEPT !.pc[i] = "insert_pdf",
                                    !.lock = Locked(md_run.valid_pages[i])]
    /\ UNCHANGED <<total_pages, agent_vars, md_others>>

\* lines 280-283: fitz.open() and insert_pdf from the shared doc; an
\* exception leaves the with block, which releases the lock, and is caught
\* at line 311
insert_pdf ==
    /\ md_run.status = "running"
    /\ \E i \in DOMAIN md_run.pc, raises \in BOOLEAN :
        /\ md_run.pc[i] = "insert_pdf"
        /\ md_run' =
             IF raises
             THEN [md_run EXCEPT !.pc[i] = "done", !.content[i] = "error",
                                 !.lock = Unlocked]
             ELSE [md_run EXCEPT !.pc[i] = "tobytes"]
    /\ UNCHANGED <<total_pages, agent_vars, md_others>>

\* lines 284-285: tobytes, close, and the end of the with block
tobytes ==
    /\ md_run.status = "running"
    /\ \E i \in DOMAIN md_run.pc, raises \in BOOLEAN :
        /\ md_run.pc[i] = "tobytes"
        /\ md_run' =
             IF raises
             THEN [md_run EXCEPT !.pc[i] = "done", !.content[i] = "error",
                                 !.lock = Unlocked]
             ELSE [md_run EXCEPT !.pc[i] = "client.call",
                                 !.lock = Unlocked]
    /\ UNCHANGED <<total_pages, agent_vars, md_others>>

\* lines 287-314: the page goes to the external model, outside the lock
client_call ==
    /\ md_run.status = "running"
    /\ \E i \in DOMAIN md_run.pc, raises \in BOOLEAN :
        /\ md_run.pc[i] = "client.call"
        /\ md_run' =
             [md_run EXCEPT !.pc[i] = "done",
                            !.content[i] = IF raises THEN "error"
                                           ELSE "markdown"]
    /\ UNCHANGED <<total_pages, agent_vars, md_others>>

\* lines 324-326: as_completed hands over a future that is done
collect_page ==
    /\ md_run.status = "running"
    /\ \E i \in DOMAIN md_run.pc :
        /\ md_run.pc[i] = "done"
        /\ md_run' =
             [md_run EXCEPT
                !.pc[i] = "collected",
                !.markdown_content =
                    (md_run.valid_pages[i] :> md_run.content[i]) @@ @]
    /\ UNCHANGED <<total_pages, agent_vars, md_others>>

\* lines 328-332, after the pool has shut down
convert_pdf_to_markdown_return ==
    /\ md_run.status = "running"
    /\ \A i \in DOMAIN md_run.pc : md_run.pc[i] = "collected"
    /\ md_run' = [md_run EXCEPT !.status = "returned", !.doc_open = FALSE]
    /\ UNCHANGED <<total_pages, agent_vars, md_others>>

(***************************************************************************)
(* check_scanned_pages (src/src/gemini.py, lines 130-168).                  *)
(***************************************************************************)
\* the longest stripped text of a page that is told apart
MaxTextLen == 1
\* the longest pages_to_check list handed to check_scanned_pages
MaxScanListLen == 3

\* the default of the text_threshold parameter, line 131
text_threshold == 1

\* len(text.strip()) of every page of the document
PageTexts(total) == [1..total -> 0..MaxTextLen]

\* the raise of line 153: the local results map is lost with the frame
ScanRaised(pg) == [raised |-> TRUE, error_page |-> pg, results |-> <<>>]
ScanReturned(d) == [raised |-> FALSE, error_page |-> 0, results |-> d]

\* lines 150-164 with the range test of lines 152-153 left out
RECURSIVE scan_loop_skipping(_, _, _, _)
scan_loop_skipping(pages_to_check, total, text_len, d) ==
    IF pages_to_check = <<>> THEN ScanReturned(d)
    ELSE LET pg == Head(pages_to_check)
         IN  IF ~(1 <= pg /\ pg <= total)
             THEN scan_loop_skipping(Tail(pages_to_check), total, text_len, d)
             ELSE scan_loop_skipping(Tail(pages_to_check), total, text_len,
                      dict_set(d, pg, text_len[pg] < text_threshold))

\* lines 150-164: the loop over pages_to_check
RECURSIVE scan_loop(_, _, _, _)
scan_loop(pages_to_check, total, text_len, d) ==
    IF pages_to_check = <<>> THEN ScanReturned(d)
    ELSE LET pg == Head(pages_to_check)
         IN  IF ~(1 <= pg /\ pg <= total)
             THEN ScanRaised(pg)
             ELSE scan_loop(Tail(pages_to_check), total, text_len,
                      dict_set(d, pg, text_len[pg] < text_threshold))

\* lines 143-168; pages_to_check is Optional
check_scanned_pages(pages_to_check, total, text_len) ==
    scan_loop(IF pages_to_check.is_none THEN [i \in 1..total |-> i]
              ELSE pages_to_check.val,
              total, text_len, <<>>)

ScanIdle == [status |-> "idle", pages_to_check |-> NoneList, text_len |-> <<>>,
             returned |-> ScanReturned(<<>>)]

\* one call, with any list of page numbers or None
check_scanned_pages_call ==
    /\ scan_call.status = "idle"
    /\ \E L \in ListsUpTo(PageInputs, MaxScanListLen), none \in BOOLEAN,
          text_len \in PageTexts(total_pages) :
        LET pages_to_check == IF none THEN NoneList ELSE SomeList(L)
        IN  /\ none => L = <<>>
            /\ scan_call' =
                 [status |-> "called", pages_to_check |-> pages_to_check,
                  text_len |-> text_len,
                  returned |-> check_scanned_pages(pages_to_check, total_pages,
                                                   text_len)]
    /\ UNCHANGED <<total_pages, agent_vars, scan_others>>

(***************************************************************************)
(* process_single_pdf_with_gemini (src/src/gemini.py, lines 519-610) and    *)
(* the outputs its caller writes (lines 655-685).                           *)
(***************************************************************************)
\* model_prompt_mapping with a second entry of lines 49-72 brought back
model_prompt_mapping_uncommented ==
    <<[name |-> "cash_equivalents", model |-> "CashAndEquivalents"],
      [name |-> "total_liabilities", model |-> "TotalLiabilities"]>>

\* lines 44-73: the entries of the mapping in key order; every entry but
\* "cash_equivalents" is commented out
model_prompt_mapping ==
    <<[name |-> "cash_equivalents", model |-> "CashAndEquivalents"]>>

\* the model names a caller may select, registered or not
ModelSelections ==
    ListsUpTo({"cash_equivalents", "total_liabilities"}, 2)

\* lines 570-577: the class names of the selected entries, in mapping order
model_pairs(model_selection) ==
    LET selected(e) == model_selection = <<>> \/ e.name \in set(model_selection)
        chosen == SelectSeq(model_prompt_mapping, selected)
    IN  [i \in DOMAIN chosen |-> chosen[i].model]

\* get_all_page_numbers, lines 106-125: a sorted list without duplicates of
\* whatever page numbers the model answered
TablePages == {sorted(S) : S \in SUBSET PageInputs}

\* line 540: the pages check_scanned_pages reports as scanned
scanned_pages_of(d) ==
    LET scans == SelectSeq(d, LAMBDA e : e.value)
    IN  [i \in DOMAIN scans |-> scans[i].name]

\* the dict a failed call returns with the empty report path, line 610
PdfFailed == [results |-> <<>>, verification_report_path |-> ""]

PdfIdle == [status |-> "idle", table_pages |-> <<>>, scanned_pages |-> <<>>,
            conversion |-> "not attempted", converted |-> FALSE, model_pairs |-> <<>>, future |-> <<>>,
            done_order |-> <<>>, yielded |-> 0, results |-> <<>>,
            results_text |-> <<>>, returned |-> PdfFailed,
            excel_rows |-> <<>>, json_results |-> <<>>]

\* where an exception before the pool ends the call (lines 608-610)
PdfFaults == {"none", "toc", "read_bytes", "get_company_info"}

\* lines 542-551, the conversion of the scanned pages: it succeeds,
\* convert_pdf_to_markdown raises (line 342), or convert_markdown_to_pdf
\* fails, which it answers with sys.exit(1) (lines 451-455); SystemExit is
\* no Exception, so that neither line 549 nor line 608 catches it
ConvertOutcomes == {"converted", "markdown raises", "sys.exit"}

\* lines 532-587: from the ToC analysis to the submission of the futures
process_single_pdf_with_gemini_start ==
    /\ pdf_run.status = "idle"
    /\ \E model_selection \in ModelSelections, table_pages \in TablePages,
          text_len \in PageTexts(total_pages), fault \in PdfFaults,
          convert \in ConvertOutcomes :
        LET scan == IF table_pages = <<>> THEN ScanReturned(<<>>)
                    ELSE check_scanned_pages(SomeList(table_pages), total_pages,
                                             text_len)
            scanned == scanned_pages_of(scan.results)
            pairs == model_pairs(model_selection)
            attempted == fault # "toc" /\ ~scan.raised /\ scanned # <<>>
        IN  /\ ~attempted => convert = "converted"
            /\ pdf_run' =
                 IF fault = "toc"
                 THEN [pdf_run EXCEPT !.status = "returned"]
                 ELSE IF scan.raised
                 THEN [pdf_run EXCEPT !.status = "returned",
                                      !.table_pages = table_pages,
                                      !.scanned_pages = scanned]
                 ELSE IF attempted /\ convert = "sys.exit"
                 THEN [pdf_run EXCEPT !.status = "exited",
                                      !.table_pages = table_pages,
                                      !.scanned_pages = scanned,
                                      !.conversion = convert]
                 ELSE IF fault # "none"
                 THEN [pdf_run EXCEPT !.status = "returned",
                                      !.table_pages = table_pages,
                                      !.scanned_pages = scanned,
                                      !.conversion =
                                          IF attempted THEN convert
                                          ELSE "not attempted"]
                 ELSE [pdf_run EXCEPT
                          !.status = "pool",
                          !.table_pages = table_pages,
                          !.scanned_pages = scanned,
                          !.conversion = IF attempted THEN convert
                                         ELSE "not attempted",
                          !.converted = attempted /\ convert = "converted",
                          !.model_pairs = pairs,
                          !.future = [i \in DOMAIN pairs |-> "running"],
                          !.results = <<"pdf_info">>]
    /\ UNCHANGED <<total_pages, agent_vars, pdf_others>>

\* lines 557-567 on a pool thread: one future completes, with a model object
\* or with None when client.call raised
process_model ==
    /\ pdf_run.status = "pool"
    /\ \E i \in DOMAIN pdf_run.future, outcome \in {"result", "None"} :
        /\ pdf_run.future[i] = "running"
        /\ pdf_run' = [pdf_run EXCEPT !.future[i] = outcome,
                                      !.done_order = Append(@, i)]
    /\ UNCHANGED <<total_pages, agent_vars, pdf_others>>

\* lines 590-600: as_completed hands out the next future that is done
as_completed_next ==
    /\ pdf_run.status = "pool"
    /\ pdf_run.yielded < Len(pdf_run.done_order)
    /\ LET i == pdf_run.done_order[pdf_run.yielded + 1]
       IN  pdf_run' =
             [pdf_run EXCEPT
                !.yielded = @ + 1,
                !.results = IF pdf_run.future[i] = "result"
                            THEN Append(@, pdf_run.model_pairs[i])
                            ELSE @]
    /\ UNCHANGED <<total_pages, agent_vars, pdf_others>>

\* lines 602-610 with genetate_verification_report (lines 459-516): the
\* report text lists results.items(); a raise returns ({}, "")
genetate_verification_report ==
    /\ pdf_run.status = "pool"
    /\ pdf_run.yielded = Len(pdf_run.model_pairs)
    /\ \E raises \in BOOLEAN :
        pdf_run' =
          [pdf_run EXCEPT
             !.status = "returned",
             !.results_text = pdf_run.results,
             !.returned = IF raises THEN PdfFailed
                          ELSE [results |-> pdf_run.results,
                                verification_report_path |-> "report"]]
    /\ UNCHANGED <<total_pages, agent_vars, pdf_others>>

\* lines 672-685 and export_excel (lines 646-648): the caller walks
\* results.values() for the workbook and results.items() for the JSON file
write_outputs ==
    /\ pdf_run.status = "returned"
    /\ pdf_run' = [pdf_run EXCEPT !.status = "written",
                                  !.excel_rows = pdf_run.returned.results,
                                  !.json_results = pdf_run.returned.results]
    /\ UNCHANGED <<total_pages, agent_vars, pdf_others>>

(***************************************************************************)
(* LabeledValue and BaseModelWithDefault (src/src/models/base.py) on the   *)
(* fields of ForeignDeposit (src/src/models/cash_equivalents.py, 10-22).    *)
(***************************************************************************)
\* the longest source_page and source_label lists of an answer
MaxProvenance == 2

\* a field of the answer: left out, null, a scalar, or the object of a
\* LabeledValue with its two lists (value and reason are any float and str)
Raw(present, is_none, scalar, source_page, source_label, reason) ==
    [present |-> present, is_none |-> is_none, scalar |-> scalar,
     source_page |-> source_page, source_label |-> source_label,
     reason |-> reason]

LeftOut == Raw(FALSE, TRUE, FALSE, <<>>, <<>>, "")
Null == Raw(TRUE, TRUE, FALSE, <<>>, <<>>, "")
Scalar == Raw(TRUE, FALSE, TRUE, <<>>, <<>>, "")

\* lines 5-9: two lists and no validator that relates them
LabeledValue(source_page, source_label, reason) ==
    Raw(TRUE, FALSE, FALSE, source_page, source_label, reason)

\* lines 12-14
make_default_lv == LabeledValue(<<>>, <<>>, "default")

\* the answers of the external model for a field of either kind
ScalarAnswers == {LeftOut, Null, Scalar}
LabeledValueAnswers ==
    {LeftOut, Null}
      \cup {LabeledValue(source_page, source_label, "reason") :
              source_page \in ListsUpTo({1}, MaxProvenance),
              source_label \in ListsUpTo({"label"}, MaxProvenance)}

\* ForeignDeposit: the annotation of every field and whether the field has
\* a default (unit_is_thousand is Field(None))
model_fields ==
    [currency |-> [annotation |-> "str", required |-> TRUE],
     foreign_amount |-> [annotation |-> "Optional[LabeledValue]",
                         required |-> TRUE],
     exchange_rate |-> [annotation |-> "LabeledValue", required |-> TRUE],
     twd_amount |-> [annotation |-> "Optional[LabeledValue]",
                     required |-> TRUE],
     unit_is_thousand |-> [annotation |-> "bool", required |-> FALSE]]

Answers ==
    [currency : ScalarAnswers, foreign_amount : LabeledValueAnswers,
     exchange_rate : LabeledValueAnswers, twd_amount : LabeledValueAnswers,
     unit_is_thousand : ScalarAnswers]

\* lines 17-23
is_labeled_value_type(tp) ==
    tp \in {"LabeledValue", "Optional[LabeledValue]"}

\* lines 26-43, run before the validation of every field that is given
replace_none_with_default(v, annotation) ==
    IF ~v.is_none THEN v
    ELSE IF is_labeled_value_type(annotation) THEN make_default_lv
    ELSE v

\* what pydantic accepts for the annotation, after the validator
accepts(annotation, v) ==
    IF v.is_none THEN annotation = "Optional[LabeledValue]"
    ELSE IF v.scalar THEN annotation \in {"str", "bool"}
    ELSE is_labeled_value_type(annotation)

\* model_validate of an answer: a field left out takes its default
\* unvalidated or, if it has none, fails the validation
validated_fields(answer) ==
    [f \in DOMAIN model_fields |->
        IF answer[f].present
        THEN replace_none_with_default(answer[f], model_fields[f].annotation)
        ELSE Null]

validation_fails(answer) ==
    \E f \in DOMAIN model_fields :
        IF answer[f].present
        THEN ~accepts(model_fields[f].annotation, validated_fields(answer)[f])
        ELSE model_fields[f].required

LvIdle == [status |-> "idle", answer |-> [f \in DOMAIN model_fields |-> LeftOut],
           instance |-> [f \in DOMAIN model_fields |-> Null]]

model_validate ==
    /\ lv_call.status = "idle"
    /\ \E answer \in Answers :
        lv_call' =
          IF validation_fails(answer)
          THEN [LvIdle EXCEPT !.status = "ValidationError", !.answer = answer]
          ELSE [status |-> "validated", answer |-> answer,
                instance |-> validated_fields(answer)]
    /\ UNCHANGED <<total_pages, agent_vars, lv_others>>

(***************************************************************************)
(* src/src/eval_results.py: compare_dict(ans, res) lists the differences   *)
(* between an expected JSON object and the one the pipeline produced.      *)
(***************************************************************************)
\* the longest list inside a compared JSON object
MaxJsonListLen == 1

\* the values json.loads gives (load_json, lines 69-70)
JsonStr(s) == [kind |-> "str", str |-> s]
JsonNum(n) == [kind |-> "num", num |-> n]
JsonList(items) == [kind |-> "list", items |-> items]
JsonDict(fields) == [kind |-> "dict", fields |-> fields]

\* lines 17-32, with the members written in ASCII of every group: the
\* strings of the model are ASCII
CURRENCY_EQUIVALENTS ==
    {{"Other"}, {"USD"}, {"TWD", "NTD"}, {"HKD"}, {"CNY", "RMB"}, {"JPY"},
     {"EUR", "Euro"}, {"GBP"}, {"AUD"}, {"CAD"}, {"SGD"}, {"CHF"}, {"NZD"},
     {"KRW"}}

\* lines 59-66
is_equivalent_currency(a, b) ==
    \E group \in CURRENCY_EQUIVALENTS : a \in group /\ b \in group

\* lines 5-14: every pattern is "*/<key>"; the key is kept
OPTIONAL_PATHS == {"subtotal", "total", "source_label", "source_page"}

\* A path "a/b[0]/c" is the sequence of its segments, each a key with the
\* list index that follows it (-1 when none follows).
Segment(key) == [key |-> key, idx |-> -1]

\* lines 36-56.  No pattern holds "[*]" or ends with "*", and no key of the
\* model is "*", so the branch of line 50 decides: cur_path ends with
\* "/<key>", that is, the key is not at the top level.
is_optional(cur_path) ==
    /\ Len(cur_path) > 1
    /\ cur_path[Len(cur_path)].key \in OPTIONAL_PATHS

\* what a call does: the list it returns, or the exception it raises
ListReturned(error_list) == [raised |-> "none", errors |-> error_list]
ExceptionRaised(exception) == [raised |-> exception, errors |-> <<>>]

\* errors += <the second>, an exception of either going through
Extended(first_part, second_part) ==
    IF first_part.raised # "none" THEN first_part
    ELSE IF second_part.raised # "none" THEN second_part
    ELSE ListReturned(first_part.errors \o second_part.errors)

Reported(tag, cur_path) == ListReturned(<<[tag |-> tag, path |-> cur_path]>>)

\* the keys of a dict in the order it yields them
KeyOrder == <<"currency", "items", "total">>
dict_keys(d) == SelectSeq(KeyOrder, LAMBDA k : k \in DOMAIN d.fields)

RECURSIVE compare_dict(_, _, _)

\* lines 86-88: the items of both lists, pairwise, as far as zip goes
RECURSIVE compare_items(_, _, _, _)
compare_items(ans_val, rv, cur_path, idx) ==
    IF idx > Len(ans_val.items) \/ idx > Len(rv.items) THEN ListReturned(<<>>)
    ELSE Extended(
           compare_dict(ans_val.items[idx], rv.items[idx],
                        [cur_path EXCEPT ![Len(cur_path)].idx = idx - 1]),
           compare_items(ans_val, rv, cur_path, idx + 1))

\* lines 82-94: a key both objects have
compare_value(key, ans_val, rv, cur_path) ==
    IF ans_val.kind = "dict" /\ rv.kind = "dict"
    THEN compare_dict(ans_val, rv, cur_path)
    ELSE IF ans_val.kind = "list" /\ rv.kind = "list"
    THEN compare_items(ans_val, rv, cur_path, 1)
    ELSE IF key = "currency" /\ ans_val.kind = "str" /\ rv.kind = "str"
    THEN IF ~is_equivalent_currency(ans_val.str, rv.str)
            /\ ~is_optional(cur_path)
         THEN Reported("DIFF", cur_path)
         ELSE ListReturned(<<>>)
    ELSE IF (ans_val.kind # rv.kind \/ ans_val # rv) /\ ~is_optional(cur_path)
    THEN Reported("DIFF", cur_path)
    ELSE ListReturned(<<>>)

\* lines 76-94: the loop over the keys of ans
RECURSIVE compare_keys(_, _, _, _)
compare_keys(ans, res, path, key_list) ==
    IF key_list = <<>> THEN ListReturned(<<>>)
    ELSE LET key == Head(key_list)
             cur_path == Append(path, Segment(key))
         IN  Extended(
               IF key \notin DOMAIN res.fields
               THEN IF ~is_optional(cur_path)
                    THEN Reported("MISSING", cur_path)
                    ELSE ListReturned(<<>>)
               ELSE compare_value(key, ans.fields[key], res.fields[key],
                                  cur_path),
               compare_keys(ans, res, path, Tail(key_list)))

\* lines 96-99: the keys only res has
extra_keys(ans, res, path) ==
    LET extra == SelectSeq(dict_keys(res),
                   LAMBDA k : /\ k \notin DOMAIN ans.fields
                              /\ ~is_optional(Append(path, Segment(k))))
    IN  [i \in DOMAIN extra |->
           [tag |-> "EXTRA", path |-> Append(path, Segment(extra[i]))]]

\* lines 73-102.  An item of a list that is no object has no items() (line
\* 76); an object compared with a number fails at "key not in res" (line 78)
\* or at "for key in res" (line 97).  The lists of the model hold objects
\* and numbers only.
compare_dict(ans, res, path) ==
    IF ans.kind # "dict" THEN ExceptionRaised("AttributeError")
    ELSE IF res.kind # "dict" THEN ExceptionRaised("TypeError")
    ELSE Extended(compare_keys(ans, res, path, dict_keys(ans)),
                  ListReturned(extra_keys(ans, res, path)))

\* the JSON objects compared: a currency and an "items" value, which is an
\* object or a list of objects and numbers
CurrencyNames == {"TWD", "NTD", "XYZ"}
JsonLeaves == {JsonStr(s) : s \in CurrencyNames} \cup {JsonNum(1)}
DictsOver(key_set, values_of(_)) ==
    {JsonDict(f) : f \in UNION {
        {g \in [S -> UNION {values_of(k) : k \in S}] :
            \A k \in S : g[k] \in values_of(k)} : S \in SUBSET key_set}}
InnerValues(key) == JsonLeaves
InnerObjects == DictsOver({"currency", "total"}, InnerValues)
JsonLists ==
    {JsonList(items) :
        items \in ListsUpTo(InnerObjects \cup {JsonNum(1)}, MaxJsonListLen)}
TopValues(key) ==
    IF key = "items" THEN InnerObjects \cup JsonLists ELSE JsonLeaves
JsonObjects == DictsOver({"currency", "items"}, TopValues)

CmpIdle == [status |-> "idle", ans |-> JsonDict(<<>>), res |-> JsonDict(<<>>),
            path |-> <<>>, result |-> ListReturned(<<>>)]

\* compare_dict(ans, res) with the default path "", and the call of main
\* (line 118), whose path is the name of the report
ComparePaths == {<<>>, <<Segment("report")>>}

compare_dict_call ==
    /\ cmp_call.status = "idle"
    /\ \E ans \in JsonObjects, res \in JsonObjects, path \in ComparePaths :
        cmp_call' = [status |-> "returned", ans |-> ans, res |-> res,
                     path |-> path, result |-> compare_dict(ans, res, path)]
    /\ UNCHANGED <<total_pages, agent_vars, cmp_others>>

(***************************************************************************)
(* src/src/check.py: extract_pages_from_model builds the PDF of the pages  *)
(* the fields of an extracted model name as their source_page.             *)
(***************************************************************************)
\* the most pages of the PDF at pdf_path
MaxCheckPages == 2
\* the longest source_page list of a field
MaxSourcePages == 2
\* the longest list of nested models
MaxModelListLen == 1

\* what source_page holds: None, one page number, or a list of them (lines
\* 83-84); pages is the list the loop of line 86 or the single step of
\* lines 100-112 goes through
SourcePageNumbers == 0..(MaxCheckPages + 1)
SourcePageValues ==
    {[kind |-> "none", pages |-> <<>>]}
    \cup {[kind |-> "int", pages |-> <<p>>] : p \in SourcePageNumbers}
    \cup {[kind |-> "list", pages |-> page_list] :
             page_list \in ListsUpTo(SourcePageNumbers, MaxSourcePages)}

\* A field value that has a source_page (a LabeledValue, models/base.py
\* lines 5-9).  It is a BaseModel too, but its own fields are numbers,
\* strings and lists of them, which lines 81-127 pass over.
SourcedValue(source_page) ==
    [kind |-> "model", has_source_page |-> TRUE, source_page |-> source_page,
     fields |-> <<>>]
\* a BaseModel without a source_page of its own
NestedModel(fields) ==
    [kind |-> "model", has_source_page |-> FALSE,
     source_page |-> [kind |-> "none", pages |-> <<>>], fields |-> fields]
ModelList(items) == [kind |-> "list", items |-> items]

SourcedValues == {SourcedValue(sp) : sp \in SourcePageValues}
NestedModels == {NestedModel(<<[name |-> "amount", value |-> v]>>) :
                    v \in SourcedValues}
FieldValues ==
    SourcedValues \cup NestedModels
    \cup {ModelList(items) : items \in ListsUpTo(NestedModels, MaxModelListLen)}
CheckedModels ==
    {NestedModel(<<[name |-> "cash", value |-> v1],
                   [name |-> "deposits", value |-> v2]>>) :
        v1 \in FieldValues, v2 \in FieldValues}

\* str(i) of line 125
ItemNames == <<"0", "1", "2">>

\* lines 86-97 and 100-112: one field's pages, in order.  pages_state is
\* the pair of extracted_pages and saved_pages.
RECURSIVE record_pages(_, _, _, _)
record_pages(page_list, current_prefix, len_doc, pages_state) ==
    IF page_list = <<>> THEN pages_state
    ELSE LET page == Head(page_list)
             zero_based_page == page - 1
             recorded ==
               IF 0 <= zero_based_page /\ zero_based_page < len_doc
               THEN IF page \in DOMAIN pages_state.saved_pages
                    THEN [pages_state EXCEPT !.extracted_pages =
                            (current_prefix :> pages_state.saved_pages[page])
                            @@ @]
                    ELSE [extracted_pages |->
                            (current_prefix :>
                               [page |-> page, field |-> current_prefix])
                            @@ pages_state.extracted_pages,
                          saved_pages |->
                            (page :> [page |-> page, field |-> current_prefix])
                            @@ pages_state.saved_pages]
               ELSE pages_state
         IN  record_pages(Tail(page_list), current_prefix, len_doc, recorded)

RECURSIVE extract_pages_recursive(_, _, _, _)

\* lines 122-127: extracted_pages.update(nested_pages) for every item
RECURSIVE extract_items(_, _, _, _, _)
extract_items(items, i, current_prefix, len_doc, pages_state) ==
    IF i > Len(items) THEN pages_state
    ELSE LET nested == extract_pages_recursive(
                         items[i], len_doc,
                         Append(current_prefix, ItemNames[i]),
                         pages_state.saved_pages)
         IN  extract_items(items, i + 1, current_prefix, len_doc,
               [extracted_pages |->
                  nested.extracted_pages @@ pages_state.extracted_pages,
                saved_pages |-> nested.saved_pages])

\* lines 77-127: the loop over model.__dict__.items()
RECURSIVE extract_fields(_, _, _, _)
extract_fields(field_list, len_doc, prefix, pages_state) ==
    IF field_list = <<>> THEN pages_state
    ELSE LET field_value == Head(field_list).value
             current_prefix == Append(prefix, Head(field_list).name)
             with_own ==
               IF /\ field_value.kind = "model"
                  /\ field_value.has_source_page
                  /\ field_value.source_page.kind # "none"
               THEN record_pages(field_value.source_page.pages,
                                 current_prefix, len_doc, pages_state)
               ELSE pages_state
             with_nested ==
               IF field_value.kind = "model"
               THEN LET nested == extract_pages_recursive(
                                    field_value, len_doc, current_prefix,
                                    with_own.saved_pages)
                    IN  [extracted_pages |->
                           nested.extracted_pages @@ with_own.extracted_pages,
                         saved_pages |-> nested.saved_pages]
               ELSE extract_items(field_value.items, 1, current_prefix,
                                  len_doc, with_own)
         IN  extract_fields(Tail(field_list), len_doc, prefix, with_nested)

\* lines 54-129: extracted_pages starts empty (line 75), saved_pages is the
\* caller's dict and is written in place
extract_pages_recursive(model, len_doc, prefix, saved_pages) ==
    extract_fields(model.fields, len_doc, prefix,
                   [extracted_pages |-> <<>>, saved_pages |-> saved_pages])

\* lines 150-161: page_info and the pages inserted into new_doc, in order
page_info_of(model, len_doc) ==
    extract_pages_recursive(model, len_doc, <<>>, <<>>).extracted_pages
sorted_pages(page_info) ==
    sorted({page_info[field].page : field \in DOMAIN page_info})

CheckIdle == [status |-> "idle", model |-> NestedModel(<<>>), len_doc |-> 0,
              new_doc |-> <<>>, page_info |-> <<>>]

\* lines 132-164
extract_pages_from_model ==
    /\ check_call.status = "idle"
    /\ \E model \in CheckedModels, len_doc \in 1..MaxCheckPages :
        LET page_info == page_info_of(model, len_doc)
        IN  check_call' = [status |-> "returned", model |-> model,
                           len_doc |-> len_doc,
                           new_doc |-> sorted_pages(page_info),
                           page_info |-> page_info]
    /\ UNCHANGED <<total_pages, agent_vars, check_others>>

NoScripts ==
    /\ main_run = MainIdle
    /\ md_run = MdIdle
    /\ scan_call = ScanIdle
    /\ pdf_run = PdfIdle
    /\ lv_call = LvIdle
    /\ cmp_call = CmpIdle
    /\ check_call = CheckIdle

(***************************************************************************)
(* Specifications.                                                         *)
(***************************************************************************)
SubsetIdle == [status |-> "idle", error |-> "", pages_base64 |-> b64encode(<<>>),
               page_mapping |-> <<>>, system_hint |-> <<>>]

NoSubsetCall ==
    /\ sub_args = <<>>
    /\ sub_result = SubsetIdle

\* the subsetter alone, called with every list of pages
SubsetInit ==
    /\ total_pages \in 1..MaxPages
    /\ NoSubsetCall
    /\ NewState
    /\ NewSession
    /\ NoBatch
    /\ NoScripts

SubsetNext == SubsetCall

SubsetSpec == SubsetInit /\ [][SubsetNext]_vars

\* one tool session of the agent on one PDF: the tools that read or write
\* the page set. A call that fails at open() ends the same way whatever its
\* arguments are, so it is taken with one choice of arguments
Init ==
    /\ total_pages \in 1..MaxPages
    /\ NoSubsetCall
    /\ NewState
    /\ NewSession
    /\ NoBatch
    /\ NoScripts

Next ==
    \/ PDFPageExtractionTool_run(ToolPageArgs, {"none", "write"})
    \/ PDFPageExtractionTool_run({<<NoneList, NoneInt>>}, {"open"})
    \/ TOCAnalysisTool_run
    \/ ReferenceLocationTool_run
    \/ DataValidationTool_run
    \/ AgentReturns

Spec == Init /\ [][Next]_vars

\* one tool session of the agent on one PDF: the tools of the extraction
\* loop; the PDF has MaxPages pages, the agent asks for the first pages and
\* then for single pages
LoopInit ==
    /\ total_pages = MaxPages
    /\ NoSubsetCall
    /\ NewState
    /\ NewSession
    /\ NoBatch
    /\ NoScripts

LoopPageArgs ==
    {<<NoneList, NoneInt>>}
      \cup {<<SomeList(<<p>>), NoneInt>> : p \in {MaxPages - 1, MaxPages}}

LoopNext ==
    \/ PDFPageExtractionTool_run(LoopPageArgs, {"none"})
    \/ ReferenceLocationTool_run
    \/ EnhancedFinancialDataExtractionTool_run
    \/ AgentReturns

LoopSpec == LoopInit /\ [][LoopNext]_vars

\* the calls of a tool session as a specification that observes them takes
\* them: last_call keeps the arguments and the answer of the external model
ObservedPageCall(Args, Faults) ==
    \E args \in Args, fault \in Faults :
        /\ PageCall(args[1], args[2], fault)
        /\ last_call' = [NoCall EXCEPT !.tool = "pdf_page_extraction",
                                       !.page_numbers = args[1],
                                       !.first_n_pages = args[2],
                                       !.kind = fault,
                                       !.pages_before = pages_extracted,
                                       !.base64_before = all_pages_base64,
                                       !.toc_succeeded = last_call.toc_succeeded]

ObservedExtractCall(Models, Outcomes) ==
    \E model_name \in Models, oracle \in Outcomes :
        /\ ExtractCall(model_name, oracle)
        /\ last_call' =
             [NoCall EXCEPT !.tool = "enhanced_financial_data_extraction",
                            !.model_name = model_name,
                            !.kind = oracle.kind,
                            !.result = oracle.result,
                            !.references_before = Len(discovered_references),
                            !.discovered_before = discovered_references,
                            !.incomplete_before = incomplete_extractions,
                            !.toc_succeeded = last_call.toc_succeeded]

\* one tool session of the agent on a PDF of MaxPages pages: the first
\* pages are extracted and financial models are extracted from them
ExtractInit == LoopInit

ExtractNext ==
    \/ ObservedPageCall({<<NoneList, NoneInt>>}, {"none"})
    \/ ObservedExtractCall(AgentModelNames, ExtractionOutcomes)

ExtractSpec == ExtractInit /\ [][ExtractNext]_vars

\* kind is "not called" when the tool returns before its external call
ObservedLookupCall ==
    \E outcome \in LookupOutcomes :
        /\ LookupCall(outcome)
        /\ last_call' =
             [NoCall EXCEPT !.tool = "reference_location_lookup",
                            !.kind = IF toc_analysis_result.is_none
                                     THEN "not called" ELSE outcome,
                            !.toc_succeeded = last_call.toc_succeeded]

\* toc_succeeded: some toc_analysis of the session has replied success
ObservedTocCall ==
    \E outcome \in TocOutcomes :
        /\ TocCall(outcome)
        /\ last_call' =
             [NoCall EXCEPT !.tool = "toc_analysis",
                            !.kind = outcome,
                            !.toc_succeeded =
                                \/ last_call.toc_succeeded
                                \/ (~all_pages_base64.is_none
                                      /\ outcome = "parsed")]

\* the answers of the external model that leave an extraction incomplete
\* with a reference, or make the call raise
IncompleteOutcomes ==
    {o \in ExtractionOutcomes :
        \/ o.kind = "raise"
        \/ /\ o.kind = "parsed"
           /\ ~o.result.is_complete
           /\ o.result.discovered_references = SomeList(<<Note6>>)}

\* the tools built on a PDFProcessingState that their caller hands to the
\* constructors (lines 655-660), with toc_analysis_result set by the caller
\* or left None. analyze_financial_report builds the state itself and nothing
\* in the repository writes toc_analysis_result, so that in its sessions
\* (Spec, LoopSpec, ExtractSpec) the lookup returns before its external call
LookupInit ==
    /\ total_pages = MaxPages
    /\ NoSubsetCall
    /\ NoBatch
    /\ NoScripts
    /\ NewSession
    /\ current_step = Step("init", <<>>, "")
    /\ pages_extracted = <<>>
    /\ toc_analysis_result \in {[is_none |-> TRUE], [is_none |-> FALSE]}
    /\ discovered_references = <<>>
    /\ all_pages_base64 = NoBase64
    /\ page_mapping = <<>>
    /\ extraction_results = <<>>
    /\ incomplete_extractions = <<>>
    /\ errors = <<>>

LookupNext ==
    \/ ObservedPageCall(LoopPageArgs, {"none"})
    \/ ObservedExtractCall({"cash_equivalents"}, IncompleteOutcomes)
    \/ ObservedLookupCall

LookupSpec == LookupInit /\ [][LookupNext]_vars

\* one tool session of the agent in which it extracts pages, analyses the
\* table of contents and looks references up
TocInit == LoopInit

TocNext ==
    \/ ObservedPageCall(ToolPageArgs, {"none"})
    \/ ObservedTocCall
    \/ ObservedLookupCall

TocSpec == TocInit /\ [][TocNext]_vars

\* the longest page_numbers list of a call that rebuilds the page subset
MaxRebuildListLen == 2

RebuildPageArgs == PageArgs(ListsUpTo(PageInputs, MaxRebuildListLen))

\* one tool session in which the agent only rebuilds the page subset, with
\* page numbers inside and outside the document
RebuildInit == LoopInit

RebuildNext ==
    \/ ObservedPageCall(RebuildPageArgs, {"none", "write"})
    \/ ObservedPageCall({<<NoneList, NoneInt>>}, {"open"})

RebuildSpec == RebuildInit /\ [][RebuildNext]_vars

\* nothing of src/agents.py and src/langchain_agents.py is running
AgentsIdle ==
    /\ total_pages = MaxPages
    /\ NoSubsetCall
    /\ NewState
    /\ NewSession
    /\ NoBatch

\* main() of src/src/main.py on the documents of pdf_mapping
MainInit ==
    /\ AgentsIdle
    /\ NoScripts

MainNext ==
    \/ process_wrapper
    \/ main_loop
    \/ main_save

MainSpec == MainInit /\ [][MainNext]_vars

\* one answer of the external model validated as a ForeignDeposit
LabeledInit ==
    /\ AgentsIdle
    /\ NoScripts

LabeledNext == model_validate

LabeledSpec == LabeledInit /\ [][LabeledNext]_vars

\* one call of compare_dict on two JSON objects
CompareInit ==
    /\ AgentsIdle
    /\ NoScripts

CompareNext == compare_dict_call

CompareSpec == CompareInit /\ [][CompareNext]_vars

\* one call of extract_pages_from_model on a model and a PDF
CheckInit ==
    /\ AgentsIdle
    /\ NoScripts

CheckNext == extract_pages_from_model

CheckSpec == CheckInit /\ [][CheckNext]_vars

\* one call of convert_pdf_to_markdown on a PDF of MaxPages pages
ConvertInit ==
    /\ AgentsIdle
    /\ NoScripts

ConvertNext ==
    \/ convert_pdf_to_markdown_start
    \/ thread_takes_task
    \/ lock_acquire
    \/ insert_pdf
    \/ tobytes
    \/ client_call
    \/ collect_page
    \/ convert_pdf_to_markdown_return

ConvertSpec == ConvertInit /\ [][ConvertNext]_vars

\* one call of check_scanned_pages on PDFs of every page count
ScanInit ==
    /\ total_pages \in 1..MaxPages
    /\ NoSubsetCall
    /\ NewState
    /\ NewSession
    /\ NoBatch
    /\ NoScripts

ScanNext == check_scanned_pages_call

ScanSpec == ScanInit /\ [][ScanNext]_vars

\* process_single_pdf_with_gemini on PDFs of every page count
PdfInit == ScanInit

PdfNext ==
    \/ process_single_pdf_with_gemini_start
    \/ process_model
    \/ as_completed_next
    \/ genetate_verification_report
    \/ write_outputs

PdfSpec == PdfInit /\ [][PdfNext]_vars

\* process_financial_models on a PDF of MaxPages pages, with or without an
\* API key
ModelsInit ==
    /\ total_pages = MaxPages
    /\ NoSubsetCall
    /\ NewState
    /\ NewSession
    /\ gemini_api_key \in BOOLEAN
    /\ financial_analysis = NoAnalysis
    /\ results = <<>>
    /\ pm_call = PmIdle
    /\ model_results = <<>>
    /\ validation_results = <<>>
    /\ overall_result = NoOverallResult
    /\ vd_call = VdIdle
    /\ NoScripts

ModelsNext ==
    \/ process_financial_models_start
    \/ process_financial_models_model

ModelsSpec == ModelsInit /\ [][ModelsNext]_vars

\* validate_extracted_data on a PDF of MaxPages pages and a result map of
\* process_financial_models
ValidateInit ==
    /\ total_pages = MaxPages
    /\ NoSubsetCall
    /\ NewState
    /\ NewSession
    /\ gemini_api_key \in BOOLEAN
    /\ financial_analysis = NoAnalysis
    /\ results = <<>>
    /\ pm_call = PmIdle
    /\ model_results \in ModelResultInputs
    /\ validation_results = <<>>
    /\ overall_result = NoOverallResult
    /\ vd_call = VdIdle
    /\ NoScripts

ValidateNext ==
    \/ validate_extracted_data_start
    \/ validate_extracted_data_model

ValidateSpec == ValidateInit /\ [][ValidateNext]_vars

(***************************************************************************)
(* Properties of the subsetter (SubsetSpec).                               *)
(***************************************************************************)
InRange(p) == 1 <= p /\ p <= total_pages

\* C1: whenever extract_pages_range_to_base64_with_mapping returns, its
\* page_mapping is a bijection from 1..|set(L)| onto set(L) whose values
\* strictly increase with the key, so that no original page has two keys.
C1_MappingIsOrderedBijection ==
    sub_result.status = "returned" =>
        LET m == sub_result.page_mapping
            S == set(sub_args)
        IN  /\ DOMAIN m = 1..Cardinality(S)
            /\ {m[k] : k \in DOMAIN m} = S
            /\ \A i, j \in DOMAIN m : i < j => m[i] < m[j]
            /\ \A i, j \in DOMAIN m : m[i] = m[j] => i = j

\* a call that returned for an unsorted list with a duplicate page
C1_Witness ==
    /\ sub_result.status = "returned"
    /\ Len(sub_args) = 3
    /\ Cardinality(set(sub_args)) = 2
    /\ sub_args[1] > sub_args[2]

\* C9: the subsetter returns iff the de-duplicated list is non-empty and
\* every page lies in [1, total_pages]; otherwise it raises, and then it
\* hands back no PDF, no mapping and no hint, not even for the valid pages.
C9_ReturnsIffAllInRange ==
    sub_result.status # "idle" =>
        /\ sub_result.status \in {"returned", "raised"}
        /\ (sub_result.status = "returned") <=>
              (set(sub_args) # {} /\ \A p \in set(sub_args) : InRange(p))
        /\ sub_result.status = "raised" =>
              /\ sub_result.pages_base64 = b64encode(<<>>)
              /\ sub_result.page_mapping = <<>>
              /\ sub_result.system_hint = <<>>

\* a call that raised although one of its pages was valid: the other one
\* was total_pages + 1
C9_Witness ==
    /\ sub_result.status = "raised"
    /\ \E i, j \in DOMAIN sub_args :
          InRange(sub_args[i]) /\ sub_args[j] = total_pages + 1

(***************************************************************************)
(* Properties of the page set of a tool session (Spec).                    *)
(***************************************************************************)
\* C2: no step of the session, whichever tool it calls and whether the call
\* succeeds or fails, removes a page from pages_extracted.
C2_PagesGrowMonotonically ==
    [][set(pages_extracted) \subseteq set(pages_extracted')]_vars

\* a pdf_page_extraction call has failed while two or more pages were held
C2_Witness ==
    /\ last_reply.tool = "pdf_page_extraction"
    /\ ~last_reply.success
    /\ Len(pages_extracted) >= 2

\* C3: a pdf_page_extraction call whose page_numbers are all in
\* pages_extracted already leaves pages_extracted as it was, and when it
\* answers with success its newly_added_pages is empty.
C3_KnownPagesAddNothing ==
    [][\/ /\ pages_extracted' = pages_extracted
          /\ last_reply'.success => last_reply'.newly_added_pages = <<>>
       \/ ~ \E L \in ToolLists \ {<<>>} :
              /\ set(L) \subseteq set(pages_extracted)
              /\ \E fault \in {"none", "open", "write"} :
                    PageCall(SomeList(L), NoneInt, fault)
      ]_vars

\* the reference pages were asked for by number when all of them were held
\* already, and the call succeeded without a newly added page
C3_Witness ==
    /\ protocol_stage = "expanded"
    /\ last_reply.tool = "pdf_page_extraction"
    /\ last_reply.success
    /\ last_reply.newly_added_pages = <<>>
    /\ asked_pages # {}

\* C4 as claimed: after the first pages, the statement pages S and the
\* reference pages R have been extracted, the active pages are S \cup R
C4_ActiveIsStatementsAndReferences ==
    protocol_stage = "expanded" => set(pages_extracted) = asked_pages

\* C4, amended: after the first pages F, the statement pages S and the
\* reference pages R have been extracted, the active pages are exactly
\* F \cup S \cup R: the pages extracted for the ToC analysis stay active.
C4_ActiveKeepsFirstPages ==
    protocol_stage = "expanded" =>
        set(pages_extracted) = first_pages \cup asked_pages

\* first page 1 for the ToC, then pages 2 and 3 by number in two calls
C4_Witness ==
    /\ protocol_stage = "expanded"
    /\ first_pages = {1}
    /\ asked_pages = {2, 3}
    /\ pages_extracted = <<1, 2, 3>>
    /\ last_reply.newly_added_pages = <<3>>

(***************************************************************************)
(* Properties of the extraction loop (LoopSpec).                           *)
(***************************************************************************)
\* the retry budget that spec.md recommends for the expansion loop
RetryBudget == 3

\* C5: the expansion rounds of a financial model (a re-extraction after the
\* model reported references and pages were extracted for them) never
\* exceed the retry budget.
C5_RoundsWithinBudget == loop_rounds <= RetryBudget

(***************************************************************************)
(* Properties of validate_extracted_data (ValidateSpec).                   *)
(***************************************************************************)
Returned == vd_call.status = "returned" /\ ~overall_result.is_none

\* a result of the shape of lines 842-849
IsSynthetic(vr) ==
    /\ ~vr.is_valid
    /\ Len(vr.errors) = 1
    /\ vr.warnings = <<>>
    /\ vr.confidence_score = 0

\* C6: in every OverallValidationResult that validate_extracted_data
\* returns, overall_valid is true exactly when every entry of
\* validation_results, the synthetic ones of the models whose validation
\* raised included, has is_valid = true.
C6_OverallValidIffAllValid ==
    Returned =>
        /\ overall_result.validation_results = validation_results
        /\ overall_result.overall_valid
             <=> ~ \E i \in DOMAIN validation_results :
                       ~validation_results[i].is_valid

\* a valid reply for the first model, a synthetic result for the second
C6_Witness ==
    /\ Returned
    /\ Len(validation_results) = 2
    /\ validation_results[1].is_valid
    /\ validation_results[2].model_name \in vd_call.raised
    /\ ~overall_result.overall_valid

\* C7: in every OverallValidationResult, total_errors counts the error
\* entries and total_warnings the warning entries of the results in
\* validation_results, and average_confidence times the number of results
\* is the sum of their confidence scores.
C7_TotalsAndAverageOverResults ==
    Returned =>
        LET vrs == overall_result.validation_results
            avg == overall_result.average_confidence
            error_entries ==
                UNION {{<<i, j>> : j \in DOMAIN vrs[i].errors} : i \in DOMAIN vrs}
            warning_entries ==
                UNION {{<<i, j>> : j \in DOMAIN vrs[i].warnings} : i \in DOMAIN vrs}
        IN  /\ vrs = validation_results
            /\ overall_result.total_errors = Cardinality(error_entries)
            /\ overall_result.total_warnings = Cardinality(warning_entries)
            /\ avg.den > 0
            /\ avg.num * Len(vrs)
                 = avg.den * sum([i \in DOMAIN vrs |-> vrs[i].confidence_score])

\* model A with 2 errors and 1 warning, model B with none
C7_Witness ==
    /\ Returned
    /\ Len(validation_results) = 2
    /\ Len(validation_results[1].errors) = 2
    /\ Len(validation_results[1].warnings) = 1
    /\ validation_results[2].errors = <<>>
    /\ validation_results[2].warnings = <<>>
    /\ overall_result.total_errors = 2
    /\ overall_result.total_warnings = 1
    /\ overall_result.average_confidence = truediv(150, 2)

\* C8: validate_extracted_data never ends by raising out of its loop; a
\* model whose validation raised has exactly one entry in
\* validation_results, of the synthetic shape (is_valid false, one error,
\* no warning, confidence 0); the models after it are validated all the
\* same, and the aggregate is produced.
C8_RaisedValidationGivesSyntheticResult ==
    /\ vd_call.status \in {"idle", "loop", "returned"}
    /\ \A m \in vd_call.raised :
          /\ Cardinality({i \in DOMAIN validation_results :
                              validation_results[i].model_name = m}) = 1
          /\ \A i \in DOMAIN validation_results :
                validation_results[i].model_name = m
                    => IsSynthetic(validation_results[i])
    /\ vd_call.status \in {"loop", "returned"} /\ gemini_api_key =>
          [i \in DOMAIN validation_results |-> validation_results[i].model_name]
            = keys(SelectSeq(SubSeq(model_results, 1, vd_call.next - 1),
                             LAMBDA item : item.value # "None"))
    /\ vd_call.status = "returned" /\ vd_call.raised # {} => Returned

\* the validation of the first model raised, the second was validated
C8_Witness ==
    /\ Returned
    /\ vd_call.raised = {model_results[1].name}
    /\ Len(validation_results) = 2
    /\ IsSynthetic(validation_results[1])
    /\ validation_results[2].model_name = model_results[2].name
    /\ validation_results[2].is_valid
    /\ overall_result.total_errors = 1

(***************************************************************************)
(* Properties of process_financial_models (ModelsSpec).                    *)
(***************************************************************************)
SomeRequiredNotFound(model_config) ==
    \E i \in DOMAIN model_config.required_statements :
        ~financial_analysis[model_config.required_statements[i]].found

ExtractionAnswered ==
    /\ last_call.tool = "enhanced_financial_data_extraction"
    /\ last_call.model_name \in FinancialModels
    /\ last_call.kind = "parsed"

NoReferences(result) ==
    \/ result.discovered_references.is_none
    \/ result.discovered_references.val = <<>>

\* C11: an answer with is_complete = false and no discovered references
\* (the list is empty or absent) is accepted: the reply has success = true
\* with a reference count of 0, and nothing was added to
\* discovered_references.
C11_PartialResultAccepted ==
    ExtractionAnswered /\ ~last_call.result.is_complete
                       /\ NoReferences(last_call.result)
        => /\ last_reply.success
           /\ last_reply.has_references = 0
           /\ Len(discovered_references) = last_call.references_before

(***************************************************************************)
(* Properties of reference_location_lookup (LookupSpec).                   *)
(***************************************************************************)
\* C12: a call of reference_location_lookup whose external model call
\* raises ends with a reply that has success = false, and leaves
\* pages_extracted, all_pages_base64, extraction_results and
\* incomplete_extractions as they were.
C12_LookupFailureKeepsState ==
    [][(last_call'.tool = "reference_location_lookup"
          /\ last_call'.kind = "raise")
         => /\ last_reply'.tool = "reference_location_lookup"
            /\ ~last_reply'.success
            /\ UNCHANGED <<pages_extracted, all_pages_base64,
                           extraction_results, incomplete_extractions>>]_vars

\* the lookup raised while an extraction is recorded as incomplete
C12_Witness ==
    /\ last_call.tool = "reference_location_lookup"
    /\ last_call.kind = "raise"
    /\ ~last_reply.success
    /\ last_reply.error = "exception"
    /\ pages_extracted # <<>>
    /\ "cash_equivalents" \in DOMAIN incomplete_extractions

(***************************************************************************)
(* Further properties of pdf_page_extraction.                              *)
(***************************************************************************)
\* C13: after a call of pdf_page_extraction that returned success,
\* page_mapping sends i to the i-th smallest page of pages_extracted, for
\* i in 1..|pages_extracted|.
C13_MappingFollowsPages ==
    last_reply.tool = "pdf_page_extraction" /\ last_reply.success
        => page_mapping
             = [i \in 1..Len(pages_extracted) |-> pages_extracted[i]]

(***************************************************************************)
(* Further properties of process_financial_models (ModelsSpec).            *)
(***************************************************************************)
\* C14: process_financial_models never ends by raising the range error of
\* the subsetter: a statement page outside the document does not make it
\* raise.
C14_RangeErrorIsCaught ==
    ~(pm_call.status = "raised" /\ pm_call.error = "page out of range")

(***************************************************************************)
(* Properties of main() of src/src/main.py (MainSpec).                     *)
(***************************************************************************)
\* C15: once main() has gone through its tasks, every document is in
\* exactly one of results and failed: in failed iff process_wrapper caught
\* an exception for it, in results iff it caught none.
C15_FailedIffCaught ==
    main_run.status # "loop" =>
        \A fn \in Documents :
            /\ (fn \in DOMAIN main_run.failed)
                  # (fn \in DOMAIN main_run.results)
            /\ fn \in DOMAIN main_run.failed <=> main_run.tasks[fn].caught
            /\ fn \in DOMAIN main_run.results <=> ~main_run.tasks[fn].caught

(***************************************************************************)
(* Properties of convert_pdf_to_markdown (ConvertSpec).                    *)
(***************************************************************************)
\* C16: at most one worker at a time is in the read-and-copy step on the
\* shared document (insert_pdf from doc up to tobytes), and the worker
\* that is there holds the lock.
C16_OneWorkerCopiesAtATime ==
    /\ Cardinality({i \in DOMAIN md_run.pc : md_run.pc[i] \in InLock}) <= 1
    /\ \A i \in DOMAIN md_run.pc :
          md_run.pc[i] \in InLock
              => md_run.lock = Locked(md_run.valid_pages[i])

\* one worker copies its page while another waits for the lock
C16_Witness ==
    /\ md_run.status = "running"
    /\ \E i, j \in DOMAIN md_run.pc :
          /\ md_run.pc[i] = "tobytes"
          /\ md_run.pc[j] = "with lock"
          /\ md_run.lock = Locked(md_run.valid_pages[i])

(***************************************************************************)
(* Properties of process_single_pdf_with_gemini (PdfSpec).                 *)
(***************************************************************************)
\* "pdf_info" followed by the models whose future gave a result, in the
\* order of model_pairs: an order that does not look at done_order
results_in_submission_order ==
    LET idx == [i \in DOMAIN pdf_run.model_pairs |-> i]
        ok == SelectSeq(idx, LAMBDA i : pdf_run.future[i] = "result")
    IN  <<"pdf_info">> \o [k \in DOMAIN ok |-> pdf_run.model_pairs[ok[k]]]

ScanOutOfRangeAt(i) ==
    LET pg == scan_call.pages_to_check.val[i]
    IN  ~(1 <= pg /\ pg <= total_pages)

\* C19: a call of check_scanned_pages with a requested page outside
\* [1, total_pages], at any position of the request, raises, names the
\* first such page and returns no result map.
C19_ScanRaisesOutOfRange ==
    \A i \in DOMAIN scan_call.pages_to_check.val :
        ScanOutOfRangeAt(i) =>
            /\ scan_call.returned.raised
            /\ scan_call.returned.results = <<>>
            /\ \E j \in 1..i :
                  /\ ScanOutOfRangeAt(j)
                  /\ scan_call.returned.error_page
                        = scan_call.pages_to_check.val[j]
                  /\ \A k \in 1..(j - 1) : ~ScanOutOfRangeAt(k)

\* a request whose last page is total_pages + 1, after pages in range one
\* of which is a scanned page, raised
C19_Witness ==
    /\ scan_call.status = "called"
    /\ Len(scan_call.pages_to_check.val) = MaxScanListLen
    /\ scan_call.pages_to_check.val[MaxScanListLen] = total_pages + 1
    /\ \A i \in 1..(MaxScanListLen - 1) : ~ScanOutOfRangeAt(i)
    /\ scan_call.text_len[scan_call.pages_to_check.val[1]] = 0
    /\ scan_call.returned.raised

(***************************************************************************)
(* Properties of pdf_page_extraction as the expansion loop uses it         *)
(* (RebuildSpec).                                                          *)
(***************************************************************************)
\* the call made last asked by number for a page outside [1, total_pages],
\* when pages had been extracted before, and the PDF library did not fail
RebuildAskedOutOfRange ==
    /\ last_call.tool = "pdf_page_extraction"
    /\ last_call.kind = "none"
    /\ last_call.pages_before # <<>>
    /\ ~last_call.page_numbers.is_none
    /\ \E i \in DOMAIN last_call.page_numbers.val :
          ~(1 <= last_call.page_numbers.val[i]
              /\ last_call.page_numbers.val[i] <= total_pages)

\* C18: a call of pdf_page_extraction that rebuilds the page subset with a
\* requested page outside [1, total_pages] fails: its reply is not a
\* success, and pages_extracted and all_pages_base64 are what they were
\* before the call.
C18_OutOfRangeRequestFails ==
    RebuildAskedOutOfRange =>
        /\ ~last_reply.success
        /\ pages_extracted = last_call.pages_before
        /\ all_pages_base64 = last_call.base64_before

(***************************************************************************)
(* Properties of the validated model instances (LabeledSpec).              *)
(***************************************************************************)
\* C20: in every instance obtained by validating an answer, every
\* LabeledValue that is not null has source_page and source_label of one
\* length, at least 1; an absent field is null and never a LabeledValue
\* with empty provenance.
C20_ProvenanceIsParallelAndNonEmpty ==
    lv_call.status = "validated" =>
        \A f \in DOMAIN model_fields :
            (is_labeled_value_type(model_fields[f].annotation)
               /\ ~lv_call.instance[f].is_none)
                => /\ Len(lv_call.instance[f].source_page)
                        = Len(lv_call.instance[f].source_label)
                   /\ Len(lv_call.instance[f].source_page) >= 1

(***************************************************************************)
(* Further properties of the extraction loop (LoopSpec).                   *)
(***************************************************************************)
\* the model extracted last had reported references, pages were then
\* extracted by number, and its re-extraction was answered without
\* references to store
ReExtractedAfterExpansion ==
    /\ loop_rounds >= 1
    /\ loop_state = "none"

\* C21: the references a model's incomplete extraction put in
\* discovered_references are gone once pages were extracted for them and
\* the model was extracted again; the list does not keep them, and so
\* cannot gather copies of them over the rounds.
C21_ReferencesAreTransient ==
    ReExtractedAfterExpansion => discovered_references = <<>>

(***************************************************************************)
(* Further properties of enhanced_financial_data_extraction (ExtractSpec). *)
(***************************************************************************)
\* C26: a call of enhanced_financial_data_extraction that replies
\* success = false, whatever made it fail, leaves discovered_references
\* and incomplete_extractions as they were before the call.
C26_FailedExtractionKeepsState ==
    (/\ last_call.tool = "enhanced_financial_data_extraction"
     /\ last_reply.tool = "enhanced_financial_data_extraction"
     /\ ~last_reply.success)
        => /\ discovered_references = last_call.discovered_before
           /\ incomplete_extractions = last_call.incomplete_before

\* C27: after an extraction that the external model answered, the model
\* name is a key of incomplete_extractions iff that answer, the most
\* recent one for the model, has is_complete = false: an answer with
\* is_complete = true removes the entry of an earlier round.
C27_IncompleteIffLastReport ==
    ExtractionAnswered =>
        (last_call.model_name \in DOMAIN incomplete_extractions
            <=> ~last_call.result.is_complete)

(***************************************************************************)
(* Tool ordering in a session (TocSpec).                                   *)
(***************************************************************************)
\* C25: once a toc_analysis of the session has replied success = true, a
\* call of reference_location_lookup does not reply that the ToC analysis
\* result was not found: it goes on to the lookup with the external model.
C25_LookupEnabledAfterToc ==
    (last_call.tool = "reference_location_lookup" /\ last_call.toc_succeeded)
        => /\ last_reply.error # "no toc analysis"
           /\ last_call.kind # "not called"

(***************************************************************************)
(* Further properties of the page set of a session (Spec).                 *)
(***************************************************************************)
\* C28: after any calls of pdf_page_extraction, failed ones included,
\* pages_extracted is strictly ascending with every page in
\* [1, total_pages], and all_pages_base64 agrees with it: once set it
\* encodes the pages of pages_extracted in that order, and while it is
\* unset pages_extracted is empty.
C28_PagesAndBase64Agree ==
    /\ \A i \in DOMAIN pages_extracted :
          /\ 1 <= pages_extracted[i] /\ pages_extracted[i] <= total_pages
          /\ i > 1 => pages_extracted[i - 1] < pages_extracted[i]
    /\ IF all_pages_base64.is_none
       THEN pages_extracted = <<>>
       ELSE all_pages_base64.pdf_pages = pages_extracted

\* a call failed after the loop over the pages, on a page set of several
\* pages that an earlier call had built, one page out of range skipped
C28_Witness ==
    /\ last_reply.tool = "pdf_page_extraction"
    /\ ~last_reply.success
    /\ last_reply.error = "exception"
    /\ Len(pages_extracted) >= 2
    /\ ~all_pages_base64.is_none
    /\ errors # <<>>

(***************************************************************************)
(* Further properties of process_single_pdf_with_gemini (PdfSpec).         *)
(***************************************************************************)
\* C22: when the conversion of the scanned pages fails, in
\* convert_pdf_to_markdown or in convert_markdown_to_pdf, the call goes on
\* with the original PDF: the process is not terminated, and the call
\* reaches the model extractions unless a later step fails.
C22_ConversionFailureIsContained ==
    pdf_run.conversion \in {"markdown raises", "sys.exit"} =>
        /\ pdf_run.status # "exited"
        /\ ~pdf_run.converted

(***************************************************************************)
(* Further properties of convert_pdf_to_markdown (ConvertSpec).            *)
(***************************************************************************)
\* the requested pages that the document has
RequestedInRange ==
    {p \in set(md_run.pages) : 1 <= p /\ p <= total_pages}

\* C23: on a document that opens, convert_pdf_to_markdown raises exactly
\* when no requested page is in [1, total_pages]; otherwise what it returns
\* has one entry for each requested page in range and no other entry, in
\* whatever order the workers complete, and a page whose conversion
\* failed has the error text as its entry.
C23_OneEntryPerPageInRange ==
    /\ md_run.status = "raised" /\ md_run.opened => RequestedInRange = {}
    /\ md_run.status \in {"running", "returned"} => RequestedInRange # {}
    /\ md_run.status = "returned" =>
          /\ DOMAIN md_run.markdown_content = RequestedInRange
          /\ \A i \in DOMAIN md_run.valid_pages :
                md_run.markdown_content[md_run.valid_pages[i]]
                    = md_run.content[i]

\* a call returned with the text of one page and the error text of
\* another, having left out a requested page that is out of range
C23_Witness ==
    /\ md_run.status = "returned"
    /\ \E p \in set(md_run.pages) : p > total_pages
    /\ \E p, q \in DOMAIN md_run.markdown_content :
          /\ md_run.markdown_content[p] = "error"
          /\ md_run.markdown_content[q] = "markdown"

(***************************************************************************)
(* Further properties of validate_extracted_data (ValidateSpec).           *)
(***************************************************************************)
\* the keys of model_results whose value is not None, in order
ModelsWithResult ==
    LET with == SelectSeq(model_results, LAMBDA e : e.value # "None")
    IN  [i \in DOMAIN with |-> with[i].name]

\* the model_name of every result, in order
ValidatedNames(vrs) == [i \in DOMAIN vrs |-> vrs[i].model_name]

\* what validate_extracted_data returned has one result for each of names,
\* in that order, and is None when names is empty
ReturnedOnePerName(names) ==
    IF names = <<>> THEN overall_result.is_none
    ELSE /\ ~overall_result.is_none
         /\ ValidatedNames(overall_result.validation_results) = names

\* C24 as stated: whenever validate_extracted_data returns, it has one
\* ValidationResult for each model whose extraction result is not None,
\* in the order of model_results and named by the key, and it returns None
\* when no model has a result.
C24_OneResultPerModelWithResult ==
    vd_call.status = "returned" => ReturnedOnePerName(ModelsWithResult)

\* the call got to its loop (statement pages were found and extracted,
\* lines 713-723) and setup_gemini gave a client (lines 735-738)
ValidationRan ==
    /\ ~vd_call.pages_base64.is_none
    /\ gemini_api_key

\* C24, amended: the same when the call got to its loop with a client;
\* when it did not, it returns None whatever the models have.
C24_OneResultPerValidatedModel ==
    vd_call.status = "returned" =>
        ReturnedOnePerName(IF ValidationRan THEN ModelsWithResult ELSE <<>>)

\* the first model has no result and is left out, the second has one and
\* is the only entry of the aggregate
C24_Witness ==
    /\ vd_call.status = "returned"
    /\ ValidationRan
    /\ model_results[1].value = "None"
    /\ ModelsWithResult # <<>>
    /\ ~overall_result.is_none
    /\ Len(overall_result.validation_results) = Len(ModelsWithResult)

(***************************************************************************)
(* Properties of compare_dict (CompareSpec).                               *)
(***************************************************************************)
\* C29: compare_dict is reflexive: for every JSON object x, with nested
\* objects, lists and currency fields of any string value,
\* compare_dict(x, x) returns an empty list of errors.
C29_CompareDictReflexive ==
    (cmp_call.status = "returned" /\ cmp_call.ans = cmp_call.res)
        => cmp_call.result = ListReturned(<<>>)

(***************************************************************************)
(* Properties of extract_pages_from_model (CheckSpec).                     *)
(***************************************************************************)
\* every page number in the source_page of a field, at any depth
RECURSIVE source_pages_of(_)
source_pages_of(field_value) ==
    IF field_value.kind = "list"
    THEN UNION {source_pages_of(field_value.items[i]) :
                   i \in DOMAIN field_value.items}
    ELSE {field_value.source_page.pages[i] :
             i \in DOMAIN field_value.source_page.pages}
         \cup UNION {source_pages_of(field_value.fields[i].value) :
                        i \in DOMAIN field_value.fields}

\* C30: the validation PDF built by extract_pages_from_model holds every
\* page p in 1..page_count that occurs in the source_page of any field of
\* the model, at any depth, each exactly once and in ascending order, every
\* page of a source_page list that names several pages included.
C30_EverySourcePageOnce ==
    check_call.status = "returned" =>
        check_call.new_doc =
            sorted(source_pages_of(check_call.model)
                   \cap 1..check_call.len_doc)

====
